---------------------------- MODULE Spec2Model ----------------------------
(***************************************************************************)
(* Model of the POPR purchase-order core: the PurchaseOrder aggregate      *)
(* (state machine, lock manager, validation, approval policy), the         *)
(* ProcessPOUseCase saga and the repository it saves to.                   *)
(*                                                                         *)
(* Units: money is counted in cents (10000.00 is 1000000), time in         *)
(* minutes.  Optional fields hold None (strings) or NoTime (instants).     *)
(* Messages built with f-strings are sequences of their string parts, and  *)
(* an absent message (notes, rejection reason) is the empty sequence.      *)
(***************************************************************************)
EXTENDS Integers, Sequences, FiniteSets, TLC

VARIABLES
    now,        \* datetime.now(), in minutes
    repo,       \* the repository: po_number -> persisted PurchaseOrder
    run,        \* per caller: the frame of its ProcessPOUseCase.execute call
    sap,        \* the gateway's record of what was done in the ERP
    calls,      \* number of execute calls started so far
    agg,        \* an aggregate exercised directly (SpecAgg)
    last        \* the last aggregate operation applied to agg, and its outcome

vars == <<now, repo, run, sap, calls, agg, last>>

---------------------------------------------------------------------------
(* Bounds of the model *)

MaxCalls == 2
MaxTicks == 1
MinutesPerTick == 40
MaxOps == 1
MaxFaults == 1
MaxRuns == 3

(* Program constants *)

LOCK_DURATION_MINUTES == 30
APPROVAL_THRESHOLD == 1000000

None == "None"
NoTime == 0 - 1

---------------------------------------------------------------------------
(* POStatus *)

DRAFT == "draft"
PENDING == "pending"
LOCKED == "locked"
PROCESSING == "processing"
RECONCILING == "reconciling"
AWAITING_APPROVAL == "awaiting_approval"
APPROVED == "approved"
REJECTED == "rejected"
CANCELLED == "cancelled"
ERROR == "error"
COMPLETED == "completed"

POStatus ==
    {DRAFT, PENDING, LOCKED, PROCESSING, RECONCILING, AWAITING_APPROVAL,
     APPROVED, REJECTED, CANCELLED, ERROR, COMPLETED}

Abs(x) == IF x < 0 THEN 0 - x ELSE x

RECURSIVE SumTotalPrice(_)
SumTotalPrice(items) ==
    IF items = <<>> THEN 0
    ELSE Head(items).total_price + SumTotalPrice(Tail(items))

---------------------------------------------------------------------------
(* PurchaseOrder: the aggregate's operations.  An operation that can raise *)
(* returns [ok, po]: ok is FALSE when it raised, and po is the aggregate   *)
(* as the call left it.                                                    *)

add_event(po, event_type, data, t) ==
    [po EXCEPT !.events = Append(@,
        [timestamp |-> t, event_type |-> event_type, status |-> po.status,
         version |-> po.version, data |-> data])]

VALID_TRANSITIONS(status) ==
    CASE status = DRAFT -> {PENDING, CANCELLED}
      [] status = PENDING -> {LOCKED, CANCELLED}
      [] status = LOCKED -> {PROCESSING, PENDING, ERROR}
      [] status = PROCESSING -> {RECONCILING, ERROR}
      [] status = RECONCILING -> {AWAITING_APPROVAL, APPROVED, ERROR}
      [] status = AWAITING_APPROVAL -> {APPROVED, REJECTED}
      [] status = APPROVED -> {COMPLETED}
      [] status = REJECTED -> {PENDING, CANCELLED}
      [] status = ERROR -> {PENDING, CANCELLED}
      [] status = CANCELLED -> {}
      [] status = COMPLETED -> {}
      [] OTHER -> {}

(* a transition table that also lets a PENDING order fail *)
can_transition_to_loose(po, new_status) ==
    new_status \in VALID_TRANSITIONS(po.status)
                   \cup (IF po.status = PENDING THEN {ERROR} ELSE {})

(* a transition table in which a failed order cannot be queued again *)
can_transition_to_no_requeue(po, new_status) ==
    new_status \in VALID_TRANSITIONS(po.status)
    /\ ~(po.status = ERROR /\ new_status = PENDING)

(* a transition table that also lets a parked order fail *)
can_transition_to_parked(po, new_status) ==
    new_status \in VALID_TRANSITIONS(po.status)
                   \cup (IF po.status = AWAITING_APPROVAL THEN {ERROR} ELSE {})

can_transition_to(po, new_status) ==
    new_status \in VALID_TRANSITIONS(po.status)

transition_to(po, new_status, reason, user, t) ==
    IF ~can_transition_to(po, new_status)
    THEN [ok |-> FALSE, po |-> po]
    ELSE [ok |-> TRUE,
          po |-> add_event(
                    [po EXCEPT !.status = new_status,
                               !.updated_at = t,
                               !.version = @ + 1],
                    "status_changed",
                    [from |-> po.status, to |-> new_status,
                     reason |-> reason, user |-> user],
                    t)]

(* a lock that never expires *)
is_locked_no_expiry(po, t) ==
    [ret |-> po.locked_by # None, po |-> po]

is_locked(po, t) ==
    IF po.locked_by = None
    THEN [ret |-> FALSE, po |-> po]
    ELSE IF po.lock_expires_at # NoTime /\ t > po.lock_expires_at
    THEN [ret |-> FALSE,
          po |-> add_event(
                    [po EXCEPT !.locked_by = None,
                               !.locked_at = NoTime,
                               !.lock_expires_at = NoTime],
                    "lock_expired", <<>>, t)]
    ELSE [ret |-> TRUE, po |-> po]

(* a lock its holder may take again while it is still running *)
acquire_lock_reentrant(po, user, duration_minutes, t) ==
    LET l == is_locked(po, t)
        held == [l.po EXCEPT !.locked_by = user,
                             !.locked_at = t,
                             !.lock_expires_at = t + duration_minutes]
        tr == transition_to(held, LOCKED, <<"Locked by", user>>, user, t)
    IN  IF l.ret /\ l.po.locked_by # user THEN [ok |-> FALSE, po |-> l.po]
        ELSE IF ~tr.ok THEN [ok |-> FALSE, po |-> tr.po]
        ELSE [ok |-> TRUE,
              po |-> add_event(tr.po, "lock_acquired",
                        [user |-> user, expires_at |-> tr.po.lock_expires_at], t)]

acquire_lock(po, user, duration_minutes, t) ==
    LET l == is_locked(po, t)
        held == [l.po EXCEPT !.locked_by = user,
                             !.locked_at = t,
                             !.lock_expires_at = t + duration_minutes]
        tr == transition_to(held, LOCKED, <<"Locked by", user>>, user, t)
    IN  IF l.ret THEN [ok |-> FALSE, po |-> l.po]
        ELSE IF ~tr.ok THEN [ok |-> FALSE, po |-> tr.po]
        ELSE [ok |-> TRUE,
              po |-> add_event(tr.po, "lock_acquired",
                        [user |-> user, expires_at |-> tr.po.lock_expires_at], t)]

(* a release that any actor may perform *)
release_lock_any(po, user, t) ==
    LET l == is_locked(po, t)
    IN  IF ~l.ret THEN [ok |-> TRUE, po |-> l.po]
        ELSE [ok |-> TRUE,
              po |-> add_event(
                        [l.po EXCEPT !.locked_by = None,
                                     !.locked_at = NoTime,
                                     !.lock_expires_at = NoTime],
                        "lock_released", [user |-> user], t)]

(* a release that leaves the lock where it is *)
release_lock_keep(po, user, t) ==
    [ok |-> TRUE, po |-> po]

release_lock(po, user, t) ==
    LET l == is_locked(po, t)
    IN  IF ~l.ret THEN [ok |-> TRUE, po |-> l.po]
        ELSE IF l.po.locked_by # user THEN [ok |-> FALSE, po |-> l.po]
        ELSE [ok |-> TRUE,
              po |-> add_event(
                        [l.po EXCEPT !.locked_by = None,
                                     !.locked_at = NoTime,
                                     !.lock_expires_at = NoTime],
                        "lock_released", [user |-> user], t)]

(* a policy that sends the threshold amount itself to manual approval *)
requires_approval_at_threshold(po) ==
    po.total_amount >= APPROVAL_THRESHOLD

requires_approval(po) ==
    po.total_amount > APPROVAL_THRESHOLD

item_validate(item) ==
    Abs(item.quantity * item.unit_price - item.total_price) < 1

VALID_CURRENCIES == {"BRL", "USD", "EUR"}

(* len(vendor_code), for the vendor codes of the model *)
VendorCodeLen(code) ==
    CASE code = "" -> 0
      [] code = "V1" -> 2
      [] OTHER -> 4

ItemError(idx) ==
    CASE idx = 1 -> "Item 1 has invalid calculations"
      [] idx = 2 -> "Item 2 has invalid calculations"
      [] OTHER -> "Item n has invalid calculations"

RECURSIVE ItemErrors(_, _)
ItemErrors(items, idx) ==
    IF idx > Len(items) THEN <<>>
    ELSE (IF item_validate(items[idx]) THEN <<>> ELSE <<ItemError(idx)>>)
         \o ItemErrors(items, idx + 1)

(* validate() returns (len(errors) == 0, errors); this is errors *)
validate(po) ==
    (IF po.total_amount <= 0 THEN <<"Total amount must be positive">> ELSE <<>>)
    \o (IF po.vendor_code = None \/ VendorCodeLen(po.vendor_code) < 3
        THEN <<"Invalid vendor code">> ELSE <<>>)
    \o (IF po.vendor_name = None \/ po.vendor_name = ""
        THEN <<"Vendor name is required">> ELSE <<>>)
    \o (IF po.currency \notin VALID_CURRENCIES
        THEN <<"Invalid currency">> ELSE <<>>)
    \o (IF po.items = <<>> THEN <<"PO must have at least one item">> ELSE <<>>)
    \o (IF po.items # <<>> /\ Abs(SumTotalPrice(po.items) - po.total_amount) > 1
        THEN <<"Items total doesn't match PO total">> ELSE <<>>)
    \o ItemErrors(po.items, 1)

approve(po, user, notes, t) ==
    LET stamped == [po EXCEPT !.approved_by = user, !.approved_at = t]
        tr == transition_to(stamped, APPROVED,
                            IF notes = <<>> THEN <<"Approved">> ELSE notes, user, t)
    IN  IF po.status \notin {AWAITING_APPROVAL, RECONCILING}
        THEN [ok |-> FALSE, po |-> po]
        ELSE IF ~tr.ok THEN [ok |-> FALSE, po |-> tr.po]
        ELSE [ok |-> TRUE,
              po |-> add_event(tr.po, "approved",
                               [user |-> user, notes |-> notes], t)]

reject(po, user, reason, t) ==
    LET marked == [po EXCEPT !.rejection_reason = reason]
        tr == transition_to(marked, REJECTED, reason, user, t)
    IN  IF po.status # AWAITING_APPROVAL
        THEN [ok |-> FALSE, po |-> po]
        ELSE IF ~tr.ok THEN [ok |-> FALSE, po |-> tr.po]
        ELSE [ok |-> TRUE,
              po |-> add_event(tr.po, "rejected",
                               [user |-> user, reason |-> reason], t)]

---------------------------------------------------------------------------
(* The purchase orders and callers of the model *)

Users == {"ana", "bob"}
Procs == {1, 2}
PO1 == "PO-1002"
PONumbers == {PO1}
DOC1 == "4500001002"

POItem(item_number, quantity, unit_price, total_price) ==
    [item_number |-> item_number, quantity |-> quantity,
     unit_price |-> unit_price, total_price |-> total_price]

(* PurchaseOrder(...): the dataclass with its field defaults *)
PurchaseOrder(po_number, vendor_code, vendor_name, total_amount, items, status) ==
    [po_number |-> po_number,
     vendor_code |-> vendor_code,
     vendor_name |-> vendor_name,
     total_amount |-> total_amount,
     currency |-> "BRL",
     items |-> items,
     status |-> status,
     version |-> 1,
     locked_by |-> None,
     locked_at |-> NoTime,
     lock_expires_at |-> NoTime,
     updated_at |-> 0,
     sap_doc_number |-> None,
     sap_fiscal_year |-> None,
     sap_data |-> <<>>,
     reconciliation_status |-> None,
     reconciliation_notes |-> <<>>,
     discrepancies |-> <<>>,
     created_by |-> "system",
     approved_by |-> None,
     approved_at |-> NoTime,
     rejection_reason |-> <<>>,
     events |-> <<>>]

(* Records as load_seed_pos / _fallback_demo_pos create them *)
SeedBelow(status) ==
    PurchaseOrder(PO1, "V014", "Fornecedor Beta", 320000,
                  <<POItem("10", 2, 160000, 320000)>>, status)

SeedAtThreshold(status) ==
    PurchaseOrder(PO1, "V014", "Fornecedor Beta", 1000000,
                  <<POItem("10", 1, 1000000, 1000000)>>, status)

SeedAbove(status) ==
    PurchaseOrder(PO1, "V001", "Fornecedor Alpha", 1250050,
                  <<POItem("10", 10, 45005, 450050),
                    POItem("20", 50, 16000, 800000)>>, status)

SeedInvalid(status) ==
    PurchaseOrder(PO1, "V014", "Fornecedor Beta", 320000,
                  <<POItem("10", 2, 160000, 320500)>>, status)

SeedWithDoc(status) ==
    [SeedBelow(status) EXCEPT !.sap_doc_number = DOC1, !.sap_fiscal_year = "2026"]

SeedPOs ==
    {SeedWithDoc(PENDING), SeedAtThreshold(PENDING), SeedAbove(PENDING),
     SeedInvalid(PENDING), SeedInvalid(ERROR), SeedAbove(AWAITING_APPROVAL)}

---------------------------------------------------------------------------
(* SQLAlchemyPORepository: one row per po_number *)

save(rows, po) ==
    [n \in DOMAIN rows \cup {po.po_number} |->
        IF n = po.po_number THEN po ELSE rows[n]]

exists(rows, po_number) == po_number \in DOMAIN rows

_to_domain(model) ==
    [model EXCEPT !.status = IF @ \in POStatus THEN @ ELSE DRAFT]

get_by_po_number(rows, po_number) == _to_domain(rows[po_number])

---------------------------------------------------------------------------
(* What the collaborators may answer.  E describes the environment:        *)
(* E.fail: calls may raise or report failure; E.mismatch: the ERP snapshot *)
(* may differ from the PO.                                                 *)

EnvAny == [fail |-> TRUE, mismatch |-> TRUE]
EnvGood == [fail |-> FALSE, mismatch |-> FALSE]

(* the calls of frame r that failed so far; a frame sees at most MaxFaults *)
Faults(r) ==
    Cardinality({i \in DOMAIN r.trace : r.trace[i][2] \in {"raise", "false"}})

MayFail(E, r) == E.fail /\ Faults(r) < MaxFaults

RepoOutcomes(E, r) == IF MayFail(E, r) THEN {"ok", "raise"} ELSE {"ok"}
BoolOutcomes(E, r) == IF MayFail(E, r) THEN {"true", "false", "raise"} ELSE {"true"}
CallOutcomes(E, r) == IF MayFail(E, r) THEN {"ok", "raise"} ELSE {"ok"}
NotifyOutcomes(E, r) == IF MayFail(E, r) THEN {"true", "raise"} ELSE {"true"}

SnapshotItems(items) == [i \in 1..Len(items) |-> [item_number |-> items[i].item_number]]

MatchingSnapshot(po) ==
    [vendor_code |-> po.vendor_code, total_amount |-> po.total_amount,
     items |-> SnapshotItems(po.items)]

WithDoc(snap) ==
    [k \in DOMAIN snap \cup {"sap_doc_number", "sap_fiscal_year"} |->
        IF k = "sap_doc_number" THEN DOC1
        ELSE IF k = "sap_fiscal_year" THEN "2026" ELSE snap[k]]

Snapshots(po, E) ==
    {MatchingSnapshot(po), WithDoc(MatchingSnapshot(po))}
    \cup (IF E.mismatch
          THEN {[MatchingSnapshot(po) EXCEPT !.vendor_code = "V999"]}
          ELSE {})

(* dict.get(key, default) on a snapshot *)
Get(d, key, default) == IF key \in DOMAIN d THEN d[key] ELSE default

---------------------------------------------------------------------------
(* ProcessPOUseCase.execute: the frame of one call *)

NullPO == PurchaseOrder(None, None, None, 0, <<>>, DRAFT)
NoCmd ==
    [po_number |-> None, user |-> None, force_approval |-> FALSE,
     skip_sap_lock |-> FALSE, notify_on_complete |-> FALSE]
NoExc == [type |-> None, msg |-> <<>>]

(* ProcessPOResult, with the dataclass defaults; result.po is the frame's po *)
ProcessPOResult(success, message, errors, events_published) ==
    [success |-> success, message |-> message, errors |-> errors,
     events_published |-> events_published,
     validation_passed |-> FALSE, sap_sync_completed |-> FALSE,
     reconciliation_passed |-> FALSE, approval_status |-> "pending",
     invoice_posted |-> FALSE]

NoResult == ProcessPOResult(FALSE, <<>>, <<>>, 0)

(* the loop state of a bulk approval; inactive in every other call *)
NoBulk ==
    [active |-> FALSE, po_numbers |-> <<>>, approved_by |-> None,
     notes |-> <<>>, post_invoices |-> FALSE, idx |-> 0, invoked |-> <<>>,
     results |-> <<>>, approved |-> 0, failed |-> 0]

IdleRun ==
    [pc |-> "idle", cmd |-> NoCmd, has_po |-> FALSE, po |-> NullPO,
     bulk |-> NoBulk,
     fetched |-> NullPO, fetched_status |-> None, events_count |-> 0,
     sap_data |-> <<>>,
     invoice_posted |-> FALSE, exc |-> NoExc, result |-> NoResult,
     trace |-> <<>>]

(* trace: the collaborator calls the frame made, in order, with their outcome *)
Called(r, call, out) == [r EXCEPT !.trace = Append(@, <<call, out>>)]

(* an exception escapes the main sequence: control goes to the except block *)
Raise(r, type, msg) ==
    [r EXCEPT !.pc = "cleanup", !.exc = [type |-> type, msg |-> msg]]

InvalidTransition(po, new_status) ==
    <<"Invalid transition", po.status, new_status>>

(* await self.po_repo.save(po); then events_count += ev and go on at pc next *)
SaveThen(p, r, out, next, ev) ==
    IF out = "ok"
    THEN /\ repo' = save(repo, r.po)
         /\ run' = [run EXCEPT ![p] =
                        [Called(r, "save", "ok") EXCEPT
                            !.pc = next, !.events_count = @ + ev]]
    ELSE /\ repo' = repo
         /\ run' = [run EXCEPT ![p] =
                        Raise(Called(r, "save", "raise"), "RepositoryError",
                              <<"save failed">>)]

(* po.transition_to(new_status, ...); save; events_count += 1 *)
TransitionAndSave(p, r, new_status, reason, out, next) ==
    LET tr == transition_to(r.po, new_status, reason, r.cmd.user, now)
    IN  IF ~tr.ok
        THEN /\ repo' = repo
             /\ run' = [run EXCEPT ![p] =
                            Raise(r, "ValueError", InvalidTransition(r.po, new_status))]
        ELSE SaveThen(p, [r EXCEPT !.po = tr.po], out, next, 1)

(* execute(command) is entered with a command of one of the callers *)
Invoke(p, callers) ==
    /\ run[p].pc = "idle"
    /\ \E po_number \in PONumbers, user \in callers,
          force_approval, skip_sap_lock, notify_on_complete \in BOOLEAN :
            run' = [run EXCEPT ![p] =
                [IdleRun EXCEPT
                    !.pc = "fetch",
                    !.cmd = [po_number |-> po_number, user |-> user,
                             force_approval |-> force_approval,
                             skip_sap_lock |-> skip_sap_lock,
                             notify_on_complete |-> notify_on_complete]]]

(* a caller among callers invokes execute(command) *)
Start(p, callers) ==
    /\ calls < MaxCalls
    /\ Invoke(p, callers)
    /\ calls' = calls + 1
    /\ UNCHANGED <<now, repo, sap, agg, last>>

(* step 1: _fetch_po *)
FetchPO(p, E) ==
    /\ run[p].pc = "fetch"
    /\ \E out \in RepoOutcomes(E, run[p]) :
        LET r == run[p] IN
        run' = [run EXCEPT ![p] =
            IF out = "raise"
            THEN Raise(Called(r, "get_by_po_number", "raise"),
                       "RepositoryError", <<"get failed">>)
            ELSE IF ~exists(repo, r.cmd.po_number)
            THEN Raise(Called(r, "get_by_po_number", "none"),
                       "PONotFoundException", <<"PO not found:", r.cmd.po_number>>)
            ELSE [Called(r, "get_by_po_number", "ok") EXCEPT
                    !.pc = "requeue", !.has_po = TRUE,
                    !.po = get_by_po_number(repo, r.cmd.po_number),
                    !.fetched = get_by_po_number(repo, r.cmd.po_number),
                    !.fetched_status = get_by_po_number(repo, r.cmd.po_number).status]]
    /\ UNCHANGED <<now, repo, sap, calls, agg, last>>

(* step 1, lines 137-142: a PO in ERROR is requeued to PENDING *)
Requeue(p, E) ==
    /\ run[p].pc = "requeue"
    /\ LET r == run[p] IN
       IF r.po.status = ERROR
       THEN \E out \in RepoOutcomes(E, run[p]) :
                TransitionAndSave(p, r, PENDING, <<"Requeue after error">>,
                                  out, "validate")
       ELSE /\ run' = [run EXCEPT ![p] =
                        [r EXCEPT !.pc = "validate", !.events_count = @ + 1]]
            /\ repo' = repo
    /\ UNCHANGED <<now, sap, calls, agg, last>>

(* step 2: _validate_po *)
ValidatePO(p, E) ==
    /\ run[p].pc = "validate"
    /\ LET r == run[p]
           errors == validate(r.po)
           tr == transition_to(r.po, ERROR, <<"Validation failed:">> \o errors,
                               "system", now)
       IN  IF errors = <<>>
           THEN /\ run' = [run EXCEPT ![p] =
                            [r EXCEPT !.pc = "lock", !.events_count = @ + 1]]
                /\ repo' = repo
           ELSE IF ~tr.ok
           THEN /\ run' = [run EXCEPT ![p] =
                            Raise(r, "ValueError", InvalidTransition(r.po, ERROR))]
                /\ repo' = repo
           ELSE \E out \in RepoOutcomes(E, run[p]) :
                    IF out = "ok"
                    THEN /\ repo' = save(repo, tr.po)
                         /\ run' = [run EXCEPT ![p] =
                                Raise(Called([r EXCEPT !.po = tr.po], "save", "ok"),
                                      "POValidationException",
                                      <<"PO", r.po.po_number, "validation failed:">>
                                          \o errors)]
                    ELSE SaveThen(p, [r EXCEPT !.po = tr.po], out, "cleanup", 0)
    /\ UNCHANGED <<now, sap, calls, agg, last>>

(* step 3: _acquire_lock *)
AcquireLock(p, E) ==
    /\ run[p].pc = "lock"
    /\ LET r == run[p]
           a == acquire_lock(r.po, r.cmd.user, LOCK_DURATION_MINUTES, now)
       IN  IF ~a.ok
           THEN /\ run' = [run EXCEPT ![p] =
                            Raise([r EXCEPT !.po = a.po], "POAlreadyLockedException",
                                  <<"PO", r.po.po_number, "is already locked by",
                                    IF a.po.locked_by = None THEN "unknown"
                                    ELSE a.po.locked_by>>)]
                /\ repo' = repo
           ELSE \E out \in RepoOutcomes(E, run[p]) :
                    SaveThen(p, [r EXCEPT !.po = a.po], out, "processing", 1)
    /\ UNCHANGED <<now, sap, calls, agg, last>>

(* step 3, lines 166-169: the PO goes to PROCESSING *)
StartProcessing(p, E) ==
    /\ run[p].pc = "processing"
    /\ \E out \in RepoOutcomes(E, run[p]) :
        TransitionAndSave(p, run[p], PROCESSING, <<"Starting processing">>,
                          out, "sap_lock")
    /\ UNCHANGED <<now, sap, calls, agg, last>>

(* step 4: _lock_sap_document, unless skipped or no document is linked *)
LockSapDocument(p, E) ==
    /\ run[p].pc = "sap_lock"
    /\ LET r == run[p] IN
       IF ~r.cmd.skip_sap_lock /\ r.po.sap_doc_number # None
       THEN \E out \in BoolOutcomes(E, run[p]) :
            run' = [run EXCEPT ![p] =
                    [Called(r, "lock_document", out) EXCEPT
                        !.pc = "sap_fetch",
                        !.events_count = IF out = "true" THEN @ + 1 ELSE @]]
       ELSE run' = [run EXCEPT ![p] = [r EXCEPT !.pc = "sap_fetch"]]
    /\ UNCHANGED <<now, repo, sap, calls, agg, last>>

(* step 5: _fetch_sap_data, po.sap_data = sap_data, save *)
FetchSapData(p, E) ==
    /\ run[p].pc = "sap_fetch"
    /\ LET r == run[p] IN
       \E got \in CallOutcomes(E, run[p]) :
          IF got = "raise"
          THEN /\ run' = [run EXCEPT ![p] =
                        Raise(Called(r, "get_po_data", "raise"), "GatewayError",
                              <<"get_po_data failed">>)]
               /\ repo' = repo
          ELSE \E sap_data \in Snapshots(r.po, E), out \in RepoOutcomes(E, run[p]) :
                SaveThen(p,
                    [Called(r, "get_po_data", "ok") EXCEPT
                        !.sap_data = sap_data,
                        !.po = [@ EXCEPT
                            !.sap_doc_number =
                                Get(sap_data, "sap_doc_number", @),
                            !.sap_fiscal_year =
                                Get(sap_data, "sap_fiscal_year", @),
                            !.sap_data = sap_data]],
                    out, "reconciling", 1)
    /\ UNCHANGED <<now, sap, calls, agg, last>>

(* step 6, lines 196-198: the PO goes to RECONCILING *)
StartReconciliation(p, E) ==
    /\ run[p].pc = "reconciling"
    /\ \E out \in RepoOutcomes(E, run[p]) :
        TransitionAndSave(p, run[p], RECONCILING, <<"Starting reconciliation">>,
                          out, "reconcile")
    /\ UNCHANGED <<now, sap, calls, agg, last>>

(* a comparison of totals that accepts no difference at all *)
Discrepancies_exact(po, sap_data) ==
    (IF po.vendor_code # Get(sap_data, "vendor_code", None)
     THEN <<"Vendor mismatch">> ELSE <<>>)
    \o (IF po.total_amount # Get(sap_data, "total_amount", 0)
        THEN <<"Amount mismatch">> ELSE <<>>)
    \o (IF Len(po.items) # Len(Get(sap_data, "items", <<>>))
        THEN <<"Items count mismatch">> ELSE <<>>)

(* _reconcile_data: the discrepancies between the PO and the snapshot *)
Discrepancies(po, sap_data) ==
    (IF po.vendor_code # Get(sap_data, "vendor_code", None)
     THEN <<"Vendor mismatch">> ELSE <<>>)
    \o (IF Abs(po.total_amount - Get(sap_data, "total_amount", 0)) > 1
        THEN <<"Amount mismatch">> ELSE <<>>)
    \o (IF Len(po.items) # Len(Get(sap_data, "items", <<>>))
        THEN <<"Items count mismatch">> ELSE <<>>)

(* a reconciliation that reports its discrepancies without recording them *)
_reconcile_data_unrecorded(po, sap_data) ==
    po

_reconcile_data(po, sap_data) ==
    LET discrepancies == Discrepancies(po, sap_data)
    IN  IF discrepancies # <<>>
        THEN [po EXCEPT !.discrepancies = discrepancies,
                        !.reconciliation_status = "failed",
                        !.reconciliation_notes = discrepancies]
        ELSE [po EXCEPT !.reconciliation_status = "success",
                        !.reconciliation_notes =
                            <<"All data reconciled successfully">>]

_build_reconciliation_error_result(r) ==
    [ProcessPOResult(FALSE, <<"Reconciliation failed">>, r.po.discrepancies,
                     r.events_count)
        EXCEPT !.validation_passed = TRUE, !.sap_sync_completed = TRUE,
               !.reconciliation_passed = FALSE]

_build_pending_approval_result(r) ==
    [ProcessPOResult(TRUE, <<"PO awaiting manual approval">>, <<>>,
                     r.events_count)
        EXCEPT !.validation_passed = TRUE, !.sap_sync_completed = TRUE,
               !.reconciliation_passed = TRUE, !.approval_status = "pending"]

(* step 6, lines 200-206: reconcile; on a discrepancy return the failure *)
ReconcileData(p, E) ==
    /\ run[p].pc = "reconcile"
    /\ LET r == run[p]
           po == _reconcile_data(r.po, r.sap_data)
           passed == Discrepancies(r.po, r.sap_data) = <<>>
       IN  \E out \in RepoOutcomes(E, run[p]) :
            IF out = "raise"
            THEN SaveThen(p, [r EXCEPT !.po = po], out, "cleanup", 0)
            ELSE /\ repo' = save(repo, po)
                 /\ LET saved == [Called(r, "save", "ok") EXCEPT
                                    !.po = po, !.events_count = @ + 1]
                    IN  run' = [run EXCEPT ![p] =
                            IF passed
                            THEN [saved EXCEPT !.pc = "approval"]
                            ELSE [saved EXCEPT
                                    !.pc = "done",
                                    !.result =
                                        _build_reconciliation_error_result(saved)]]
    /\ UNCHANGED <<now, sap, calls, agg, last>>

(* step 7: _process_approval, and the manual-approval return *)
ProcessApproval(p, E) ==
    /\ run[p].pc = "approval"
    /\ LET r == run[p]
           requires_manual == requires_approval(r.po) \/ r.cmd.force_approval
           tr == transition_to(r.po, AWAITING_APPROVAL,
                               <<"Amount requires approval">>, r.cmd.user, now)
           ap == approve(r.po, "system", <<"Auto-approved (below threshold)">>, now)
       IN  IF requires_manual
           THEN IF ~tr.ok
                THEN /\ run' = [run EXCEPT ![p] =
                            Raise(r, "ValueError",
                                  InvalidTransition(r.po, AWAITING_APPROVAL))]
                     /\ UNCHANGED repo
                ELSE \E out \in RepoOutcomes(E, run[p]), sent \in NotifyOutcomes(E, run[p]) :
                     IF out = "raise"
                     THEN SaveThen(p, [r EXCEPT !.po = tr.po], out, "cleanup", 0)
                     ELSE /\ repo' = save(repo, tr.po)
                          /\ LET saved ==
                                    Called(Called([r EXCEPT !.po = tr.po],
                                                  "save", "ok"),
                                           "notify_approval_required", sent)
                             IN  run' = [run EXCEPT ![p] =
                                    IF sent = "raise"
                                    THEN Raise([saved EXCEPT !.events_count = @ + 1],
                                               "NotifierError",
                                               <<"notify_approval_required failed">>)
                                    ELSE LET counted ==
                                                [saved EXCEPT !.events_count = @ + 2]
                                         IN  [counted EXCEPT
                                                !.pc = "done",
                                                !.result =
                                                    _build_pending_approval_result(
                                                        counted)]]
           ELSE IF ~ap.ok
                THEN /\ run' = [run EXCEPT ![p] =
                            Raise([r EXCEPT !.po = ap.po], "ValueError",
                                  <<"Cannot approve PO in status", r.po.status>>)]
                     /\ UNCHANGED repo
                ELSE \E out \in RepoOutcomes(E, run[p]) :
                     SaveThen(p, [r EXCEPT !.po = ap.po], out, "invoice", 1)
    /\ UNCHANGED <<now, sap, calls, agg, last>>

(* step 8: _post_invoice for an APPROVED PO *)
PostInvoice(p, E) ==
    /\ run[p].pc = "invoice"
    /\ LET r == run[p] IN
       IF r.po.status = APPROVED
       THEN \E out \in CallOutcomes(E, run[p]) :
            /\ run' = [run EXCEPT ![p] =
                    [Called(r, "post_invoice", out) EXCEPT
                        !.pc = "complete",
                        !.invoice_posted = (out = "ok"),
                        !.events_count = IF out = "ok" THEN @ + 1 ELSE @]]
            /\ sap' = IF out = "ok"
                      THEN [sap EXCEPT !.posted_invoices = @ + 1]
                      ELSE sap
       ELSE /\ run' = [run EXCEPT ![p] = [r EXCEPT !.pc = "complete"]]
            /\ sap' = sap
    /\ UNCHANGED <<now, repo, calls, agg, last>>

(* step 9: the PO goes to COMPLETED *)
CompletePO(p, E) ==
    /\ run[p].pc = "complete"
    /\ \E out \in RepoOutcomes(E, run[p]) :
        TransitionAndSave(p, run[p], COMPLETED, <<"Processing completed">>,
                          out, "release")
    /\ UNCHANGED <<now, sap, calls, agg, last>>

(* a step 10 that goes on to the unlock without releasing the lock *)
ReleaseLock_skipped(p, E) ==
    /\ run[p].pc = "release"
    /\ run' = [run EXCEPT ![p] = [@ EXCEPT !.pc = "sap_unlock"]]
    /\ UNCHANGED <<now, repo, sap, calls, agg, last>>

(* step 10, lines 246-248: release the lock and save *)
ReleaseLock(p, E) ==
    /\ run[p].pc = "release"
    /\ LET r == run[p]
           rel == release_lock(r.po, r.cmd.user, now)
       IN  IF ~rel.ok
           THEN /\ run' = [run EXCEPT ![p] =
                        Raise([r EXCEPT !.po = rel.po], "ValueError",
                              <<"Cannot release lock. Locked by", rel.po.locked_by>>)]
                /\ repo' = repo
           ELSE \E out \in RepoOutcomes(E, run[p]) :
                    SaveThen(p, [r EXCEPT !.po = rel.po], out, "sap_unlock", 1)
    /\ UNCHANGED <<now, sap, calls, agg, last>>

(* step 10, lines 250-252: unlock the linked document *)
UnlockSapDocument(p, E) ==
    /\ run[p].pc = "sap_unlock"
    /\ LET r == run[p] IN
       IF r.po.sap_doc_number # None
       THEN \E out \in BoolOutcomes(E, run[p]) :
            run' = [run EXCEPT ![p] =
                    IF out = "raise"
                    THEN Raise(Called(r, "unlock_document", out), "GatewayError",
                               <<"unlock_document failed">>)
                    ELSE [Called(r, "unlock_document", out) EXCEPT !.pc = "notify"]]
       ELSE run' = [run EXCEPT ![p] = [r EXCEPT !.pc = "notify"]]
    /\ UNCHANGED <<now, repo, sap, calls, agg, last>>

(* step 11 and the success return, lines 257-285 *)
NotifyAndSucceed(p, E) ==
    /\ run[p].pc = "notify"
    /\ LET r == run[p]
           Success(f) ==
                [f EXCEPT
                    !.pc = "done",
                    !.result =
                        [ProcessPOResult(TRUE, <<"PO", r.cmd.po_number,
                                                 "processed successfully">>,
                                         <<>>, f.events_count)
                            EXCEPT !.validation_passed = TRUE,
                                   !.sap_sync_completed = TRUE,
                                   !.reconciliation_passed = TRUE,
                                   !.approval_status =
                                        IF ~r.cmd.force_approval THEN "auto"
                                        ELSE "manual",
                                   !.invoice_posted = TRUE]]
       IN  IF r.cmd.notify_on_complete
           THEN \E sent \in NotifyOutcomes(E, run[p]) :
                run' = [run EXCEPT ![p] =
                        Success([Called(r, "notify_completed", sent) EXCEPT
                                    !.events_count = @ + 1])]
           ELSE run' = [run EXCEPT ![p] = Success(r)]
    /\ UNCHANGED <<now, repo, sap, calls, agg, last>>

(* a cleanup without its inner try: what fails in it reaches the caller *)
Swallow_reraise(f) ==
    [f EXCEPT !.pc = "raised", !.result = NoResult]

(* the inner try of the except block, "except: pass": whatever fails in    *)
(* the cleanup is dropped and the failure result f is returned all the same *)
Swallow(f) ==
    f

(* the except block, lines 287-317 *)
Cleanup(p, E) ==
    /\ run[p].pc = "cleanup"
    /\ LET r == run[p]
           tr == transition_to(r.po, ERROR, r.exc.msg, r.cmd.user, now)
           rel == release_lock(tr.po, r.cmd.user, now)
           Failure(f) ==
                [f EXCEPT
                    !.pc = "done",
                    !.result = ProcessPOResult(FALSE,
                                    <<"Error processing PO:">> \o r.exc.msg,
                                    <<r.exc.msg>>, r.events_count)]
       IN  IF ~r.has_po
           THEN /\ run' = [run EXCEPT ![p] = Failure(r)]
                /\ UNCHANGED repo
           ELSE IF ~tr.ok
           THEN /\ run' = [run EXCEPT ![p] = Swallow(Failure(r))]
                /\ UNCHANGED repo
           ELSE IF ~rel.ok
           THEN /\ run' = [run EXCEPT ![p] =
                            Swallow(Failure([r EXCEPT !.po = rel.po]))]
                /\ UNCHANGED repo
           ELSE \E out \in RepoOutcomes(E, run[p]), sent \in NotifyOutcomes(E, run[p]) :
                IF out = "raise"
                THEN /\ run' = [run EXCEPT ![p] =
                            Swallow(Failure(Called([r EXCEPT !.po = rel.po],
                                                   "save", out)))]
                     /\ UNCHANGED repo
                ELSE /\ repo' = save(repo, rel.po)
                     /\ LET f == Failure(Called(Called([r EXCEPT !.po = rel.po],
                                                       "save", out),
                                                "notify_error", sent))
                        IN  run' = [run EXCEPT ![p] =
                                IF sent = "raise" THEN Swallow(f) ELSE f]
    /\ UNCHANGED <<now, sap, calls, agg, last>>

(* execute returns its result to the caller *)
Return(p) ==
    /\ run[p].pc = "done"
    /\ run' = [run EXCEPT ![p] = IdleRun]
    /\ UNCHANGED <<now, repo, sap, calls, agg, last>>

(* time passes *)
Tick ==
    /\ now + MinutesPerTick <= MaxTicks * MinutesPerTick
    /\ \A p \in Procs : run[p].pc = "idle"
    /\ now' = now + MinutesPerTick
    /\ UNCHANGED <<repo, run, sap, calls, agg, last>>

---------------------------------------------------------------------------
(* The saga, one call at a time, on a seeded repository *)

NoOp == [op |-> None]

Init ==
    /\ now = 0
    /\ \E po \in SeedPOs : repo = save(<<>>, po)
    /\ run = [p \in Procs |-> IdleRun]
    /\ sap = [posted_invoices |-> 0]
    /\ calls = 0
    /\ agg = NullPO
    /\ last = NoOp

Steps(p, E) ==
    \/ FetchPO(p, E)
    \/ Requeue(p, E)
    \/ ValidatePO(p, E)
    \/ AcquireLock(p, E)
    \/ StartProcessing(p, E)
    \/ LockSapDocument(p, E)
    \/ FetchSapData(p, E)
    \/ StartReconciliation(p, E)
    \/ ReconcileData(p, E)
    \/ ProcessApproval(p, E)
    \/ PostInvoice(p, E)
    \/ CompletePO(p, E)
    \/ ReleaseLock(p, E)
    \/ UnlockSapDocument(p, E)
    \/ NotifyAndSucceed(p, E)
    \/ Cleanup(p, E)
    \/ Return(p)

Next ==
    \/ Start(1, Users)
    \/ Steps(1, EnvAny)
    \/ Tick

Spec == Init /\ [][Next]_vars

---------------------------------------------------------------------------
(* Two callers at once, ana as caller 1 and bob as caller 2: each execute   *)
(* works on the copy it fetched and saves to the shared repository; the    *)
(* collaborators do not fail                                               *)

NextConc ==
    \/ Start(1, {"ana"})
    \/ Start(2, {"bob"})
    \/ \E p \in Procs : Steps(p, EnvGood)
    \/ Tick

SpecConc == Init /\ [][NextConc]_vars

---------------------------------------------------------------------------
(* A crash and what follows: the process running execute dies once, its    *)
(* frame is lost and the repository keeps what was last saved; the actor   *)
(* of the lost call then calls execute again, as often as it takes.  Data  *)
(* is valid and the collaborators do not fail.                             *)

Crash(p) ==
    /\ last.op # "crash"
    /\ run[p].pc \notin {"idle", "fetch"}
    /\ run[p].has_po
    /\ last' = [op |-> "crash", user |-> run[p].cmd.user,
                after_save |-> run[p].trace[Len(run[p].trace)] = <<"save", "ok">>,
                persisted |-> repo[run[p].cmd.po_number]]
    /\ run' = [run EXCEPT ![p] = IdleRun]
    /\ UNCHANGED <<now, repo, sap, calls, agg>>

Retry(p) ==
    /\ last.op = "crash"
    /\ Invoke(p, {last.user})
    /\ UNCHANGED <<now, repo, sap, calls, agg, last>>

InitResume ==
    /\ Init
    /\ \A n \in DOMAIN repo : validate(repo[n]) = <<>>

NextResume ==
    \/ last.op # "crash" /\ Start(1, Users)
    \/ Steps(1, EnvGood)
    \/ Crash(1)
    \/ Retry(1)
    \/ Tick

SpecResume ==
    /\ InitResume
    /\ [][NextResume]_vars
    /\ WF_vars(Retry(1))
    /\ WF_vars(Steps(1, EnvGood))

---------------------------------------------------------------------------
(* The aggregate on its own: any operation, by any actor, in any status *)

AggSeeds ==
    {[SeedWithDoc(status) EXCEPT
        !.locked_by = holder,
        !.locked_at = IF holder = None THEN NoTime ELSE 0,
        !.lock_expires_at = IF holder = None THEN NoTime
                            ELSE LOCK_DURATION_MINUTES] :
        status \in POStatus, holder \in {None, "ana"}}

InitAgg ==
    /\ now = 0
    /\ repo = <<>>
    /\ run = [p \in Procs |-> IdleRun]
    /\ sap = [posted_invoices |-> 0]
    /\ calls = 0
    /\ agg \in AggSeeds
    /\ last = NoOp

AggTransitionTo ==
    /\ Len(agg.events) < MaxOps
    /\ \E new_status \in POStatus, user \in Users :
        LET res == transition_to(agg, new_status, <<"by hand">>, user, now)
        IN  /\ agg' = res.po
            /\ last' = [op |-> "transition_to", at |-> now, new_status |-> new_status,
                        user |-> user, before |-> agg, ok |-> res.ok]
    /\ UNCHANGED <<now, repo, run, sap, calls>>

AggAcquireLock ==
    /\ Len(agg.events) < MaxOps
    /\ \E user \in Users :
        LET res == acquire_lock(agg, user, LOCK_DURATION_MINUTES, now)
        IN  /\ agg' = res.po
            /\ last' = [op |-> "acquire_lock", at |-> now, user |-> user, before |-> agg,
                        ok |-> res.ok]
    /\ UNCHANGED <<now, repo, run, sap, calls>>

AggReleaseLock ==
    /\ Len(agg.events) < MaxOps
    /\ \E user \in Users :
        LET res == release_lock(agg, user, now)
        IN  /\ agg' = res.po
            /\ last' = [op |-> "release_lock", at |-> now, user |-> user, before |-> agg,
                        ok |-> res.ok]
    /\ UNCHANGED <<now, repo, run, sap, calls>>

AggIsLocked ==
    /\ Len(agg.events) < MaxOps
    /\ LET res == is_locked(agg, now)
       IN  /\ agg' = res.po
           /\ last' = [op |-> "is_locked", at |-> now, before |-> agg, ret |-> res.ret]
    /\ UNCHANGED <<now, repo, run, sap, calls>>

AggApprove ==
    /\ Len(agg.events) < MaxOps
    /\ \E user \in Users :
        LET res == approve(agg, user, <<>>, now)
        IN  /\ agg' = res.po
            /\ last' = [op |-> "approve", at |-> now, user |-> user, before |-> agg,
                        ok |-> res.ok]
    /\ UNCHANGED <<now, repo, run, sap, calls>>

AggReject ==
    /\ Len(agg.events) < MaxOps
    /\ \E user \in Users :
        LET res == reject(agg, user, <<"invalid">>, now)
        IN  /\ agg' = res.po
            /\ last' = [op |-> "reject", at |-> now, user |-> user, before |-> agg,
                        ok |-> res.ok]
    /\ UNCHANGED <<now, repo, run, sap, calls>>

NextAgg ==
    \/ AggTransitionTo
    \/ AggAcquireLock
    \/ AggReleaseLock
    \/ AggIsLocked
    \/ AggApprove
    \/ AggReject
    \/ Tick

SpecAgg == InitAgg /\ [][NextAgg]_vars

---------------------------------------------------------------------------
(* The transition table as the specification states it *)

AllowedSet(status) ==
    CASE status = DRAFT -> {PENDING, CANCELLED}
      [] status = PENDING -> {LOCKED, CANCELLED}
      [] status = LOCKED -> {PROCESSING, PENDING, ERROR}
      [] status = PROCESSING -> {RECONCILING, ERROR}
      [] status = RECONCILING -> {AWAITING_APPROVAL, APPROVED, ERROR}
      [] status = AWAITING_APPROVAL -> {APPROVED, REJECTED}
      [] status = APPROVED -> {COMPLETED}
      [] status = REJECTED -> {PENDING, CANCELLED}
      [] status = ERROR -> {PENDING, CANCELLED}
      [] OTHER -> {}

SameLockAndLog(a, b) ==
    /\ a.status = b.status
    /\ a.version = b.version
    /\ a.locked_by = b.locked_by
    /\ a.locked_at = b.locked_at
    /\ a.lock_expires_at = b.lock_expires_at
    /\ a.events = b.events

(* C1: transition_to(T) succeeds iff T is in the allowed set of the status  *)
(* it is called in; on success status, version and log advance; on failure *)
(* status, version, lock fields and audit log are unchanged.               *)
C1_TransitionIffAllowed ==
    last.op = "transition_to" =>
        /\ last.ok <=> last.new_status \in AllowedSet(last.before.status)
        /\ last.ok => /\ agg.status = last.new_status
                      /\ agg.version = last.before.version + 1
                      /\ Len(agg.events) = Len(last.before.events) + 1
        /\ ~last.ok => SameLockAndLog(agg, last.before)

C1_Witness ==
    /\ last.op = "transition_to"
    /\ ~last.ok
    /\ last.before.status = PENDING
    /\ last.new_status = ERROR
    /\ last.before.locked_by # None

(* What a returned frame says about its call *)

(* the collaborator calls of frame r that raised or reported failure *)
FailedCalls(r) ==
    {r.trace[i][1] : i \in {j \in DOMAIN r.trace : r.trace[j][2] \in {"raise", "false"}}}

MadeCalls(r) == {r.trace[i][1] : i \in DOMAIN r.trace}

(* execute returned through its except block, with a fetched PO *)
ReturnedError(r) == r.pc = "done" /\ r.has_po /\ r.exc.type # None

Stored(r) == repo[r.cmd.po_number]

GATEWAY_STEPS == {"lock_document", "unlock_document", "post_invoice"}
NOTIFICATIONS == {"notify_approval_required", "notify_completed", "notify_error"}

RequiresManual(r) == r.po.total_amount > 1000000 \/ r.cmd.force_approval

(* frame r got past lock acquisition and is between PROCESSING and the     *)
(* release of its lock, which has not expired                              *)
HoldsLock(r) ==
    /\ r.pc \in {"processing", "sap_lock", "sap_fetch", "reconciling",
                 "reconcile", "approval", "invoice", "complete", "release"}
    /\ r.po.locked_by = r.cmd.user
    /\ now <= r.po.lock_expires_at

(* C2: of two execute calls running at once on the same PO, at most one is *)
(* past lock acquisition, doing the PROCESSING-to-COMPLETED steps under an *)
(* unexpired lock.                                                         *)
C2_LockExclusive ==
    \A p, q \in Procs :
        /\ p # q
        /\ run[p].cmd.po_number = run[q].cmd.po_number
        /\ HoldsLock(run[p])
        => ~HoldsLock(run[q])

(* C3: when an exception escaped a step of execute after the fetch and no  *)
(* collaborator failed, then on return the PO is in ERROR, unlocked, and   *)
(* that state is the one in the repository.                                *)
C3_ErrorExitSavesError ==
    \A p \in Procs :
        ReturnedError(run[p]) /\ FailedCalls(run[p]) = {} =>
            /\ run[p].po.status = ERROR
            /\ Stored(run[p]).status = ERROR
            /\ Stored(run[p]).locked_by = None

(* C4: when execute returns for a PO fetched in PENDING or ERROR that      *)
(* fails validate(), and no collaborator failed, the stored PO is in       *)
(* ERROR, no lock was taken, and the result lists the validation errors.   *)
C4_InvalidPOEndsInError ==
    \A p \in Procs :
        /\ run[p].pc = "done"
        /\ run[p].fetched_status \in {PENDING, ERROR}
        /\ validate(run[p].po) # <<>>
        /\ FailedCalls(run[p]) = {}
        => /\ Stored(run[p]).status = ERROR
           /\ Stored(run[p]).locked_by = None
           /\ \A i \in DOMAIN validate(run[p].po) :
                \E e \in DOMAIN run[p].result.errors :
                    \E j \in DOMAIN run[p].result.errors[e] :
                        run[p].result.errors[e][j] = validate(run[p].po)[i]

(* C5: when execute returns from a run that passed reconciliation, needed  *)
(* no manual approval, and in which the only calls that failed are         *)
(* lock_document, unlock_document or post_invoice, the result is a         *)
(* success and the stored PO is COMPLETED with no lock.                    *)
C5_GatewayFailureHarmless ==
    \A p \in Procs :
        /\ run[p].pc = "done"
        /\ FailedCalls(run[p]) # {}
        /\ FailedCalls(run[p]) \subseteq GATEWAY_STEPS
        /\ run[p].sap_data # <<>>
        /\ Discrepancies(run[p].po, run[p].sap_data) = <<>>
        /\ ~RequiresManual(run[p])
        => /\ run[p].result.success
           /\ Stored(run[p]).status = COMPLETED
           /\ Stored(run[p]).locked_by = None

(* C6: when execute returns from a run in which only notifications failed, *)
(* the result is what it is without the failure: pending success with the  *)
(* PO in AWAITING_APPROVAL (approval-required), success with the PO        *)
(* COMPLETED (completion), failure with the PO in ERROR (error).           *)
C6_NotificationFailureHarmless ==
    \A p \in Procs :
        /\ run[p].pc = "done"
        /\ FailedCalls(run[p]) # {}
        /\ FailedCalls(run[p]) \subseteq NOTIFICATIONS
        => /\ "notify_approval_required" \in FailedCalls(run[p]) =>
                /\ run[p].result.success
                /\ run[p].result.approval_status = "pending"
                /\ Stored(run[p]).status = AWAITING_APPROVAL
           /\ "notify_completed" \in FailedCalls(run[p]) =>
                /\ run[p].result.success
                /\ Stored(run[p]).status = COMPLETED
           /\ "notify_error" \in FailedCalls(run[p]) =>
                /\ ~run[p].result.success
                /\ Stored(run[p]).status = ERROR

(* C7: when execute returns with a fetched PO and no collaborator failed,  *)
(* the repository's record equals the returned aggregate in status,       *)
(* version, lock holder and expiry, and audit log.                         *)
C7_ReturnedEqualsStored ==
    \A p \in Procs :
        /\ run[p].pc = "done"
        /\ run[p].has_po
        /\ FailedCalls(run[p]) = {}
        => SameLockAndLog(Stored(run[p]), run[p].po)

Resumed ==
    \A n \in DOMAIN repo :
        \/ repo[n].status = COMPLETED /\ repo[n].locked_by = None
        \/ repo[n].status = AWAITING_APPROVAL

CrashedAfterSave ==
    /\ last.op = "crash"
    /\ last.after_save
    /\ last.persisted.status \in {LOCKED, PROCESSING, RECONCILING, APPROVED, COMPLETED}

(* C8: once an execute call was interrupted right after one of its saves   *)
(* (LOCKED, PROCESSING, RECONCILING, APPROVED or COMPLETED persisted),     *)
(* further execute calls by the same actor eventually bring the PO to      *)
(* COMPLETED with no lock held, or to AWAITING_APPROVAL.                   *)
C8_CrashResumes == CrashedAfterSave ~> Resumed

(* C9: an execute call on a PO fetched in AWAITING_APPROVAL saves nothing  *)
(* and posts no invoice, the stored status stays AWAITING_APPROVAL         *)
(* throughout the call, and the call returns a failure.                    *)
C9_ParkedStaysParked ==
    \A p \in Procs :
        run[p].fetched_status = AWAITING_APPROVAL =>
            /\ Stored(run[p]).status = AWAITING_APPROVAL
            /\ "save" \notin MadeCalls(run[p])
            /\ "post_invoice" \notin MadeCalls(run[p])
            /\ run[p].pc = "done" => ~run[p].result.success

(* a returned call on a parked PO whose lock, taken by the other actor,    *)
(* has expired                                                             *)
C9_Witness ==
    /\ run[1].pc = "done"
    /\ run[1].fetched_status = AWAITING_APPROVAL
    /\ ~run[1].result.success
    /\ Stored(run[1]).locked_by \notin {None, run[1].cmd.user}
    /\ now > Stored(run[1]).lock_expires_at

(* the approval step taken by frame p: automatic approval by "system"      *)
(* exactly when the total is at most 10000.00 and manual approval is not   *)
(* forced, and otherwise the PO goes to AWAITING_APPROVAL                  *)
ApprovalStepRight(p) ==
    run[p].pc = "approval" /\ run'[p].pc # "approval" =>
        LET auto == /\ run[p].po.total_amount <= 1000000
                    /\ ~run[p].cmd.force_approval
        IN  /\ auto <=> /\ run'[p].po.status = APPROVED
                        /\ run'[p].po.approved_by = "system"
            /\ ~auto => /\ run'[p].po.status = AWAITING_APPROVAL
                        /\ run'[p].po.approved_by = None

NoSystemApprovalAbove ==
    /\ \A n \in DOMAIN repo :
        repo[n].total_amount > 1000000 => repo[n].approved_by # "system"
    /\ \A p \in Procs :
        run[p].po.total_amount > 1000000 => run[p].po.approved_by # "system"

(* C10: after a successful reconciliation execute approves the PO as       *)
(* "system" iff total_amount <= 10000.00 and force_approval is unset, and  *)
(* otherwise moves it to AWAITING_APPROVAL; no PO above 10000.00 ever has  *)
(* approved_by = "system".                                                 *)
C10_AutoApprovalIffWithinThreshold ==
    /\ []NoSystemApprovalAbove
    /\ [][\A p \in Procs : ApprovalStepRight(p)]_vars

(* a PO of exactly 10000.00 approved by "system" and on its way to the     *)
(* invoice step                                                            *)
C10_Witness ==
    /\ run[1].pc = "invoice"
    /\ run[1].po.total_amount = 1000000
    /\ run[1].po.approved_by = "system"
    /\ Stored(run[1]).status = APPROVED

(* the calls to a collaborator method that frame r made *)
CallCount(r, call) ==
    Cardinality({i \in DOMAIN r.trace : r.trace[i][1] = call})

(* frame r was called on a valid, unlocked PENDING PO, no collaborator     *)
(* failed, and the snapshot it got, if it got one, matches the PO          *)
CleanRun(r) ==
    /\ r.has_po
    /\ r.fetched.status = PENDING
    /\ r.fetched.locked_by = None
    /\ validate(r.fetched) = <<>>
    /\ FailedCalls(r) = {}
    /\ r.sap_data # <<>> => Discrepancies(r.fetched, r.sap_data) = <<>>

(* C11: execute on a valid, unlocked PENDING PO of at most 10000.00, with  *)
(* force_approval unset, a matching snapshot and no failing collaborator,  *)
(* returns success with invoice_posted, the PO stored COMPLETED and        *)
(* unlocked, one post_invoice call, one completion notification iff        *)
(* notify_on_complete, and no approval-required or error notification.     *)
C11_AutoPathCompletes ==
    \A p \in Procs :
        /\ run[p].pc = "done"
        /\ CleanRun(run[p])
        /\ run[p].fetched.total_amount <= 1000000
        /\ ~run[p].cmd.force_approval
        => /\ run[p].result.success
           /\ run[p].result.invoice_posted
           /\ run[p].invoice_posted
           /\ Stored(run[p]).status = COMPLETED
           /\ Stored(run[p]).locked_by = None
           /\ Stored(run[p]).lock_expires_at = NoTime
           /\ CallCount(run[p], "post_invoice") = 1
           /\ CallCount(run[p], "notify_completed") =
                    (IF run[p].cmd.notify_on_complete THEN 1 ELSE 0)
           /\ CallCount(run[p], "notify_approval_required") = 0
           /\ CallCount(run[p], "notify_error") = 0

(* a completed run on the PO of exactly 10000.00, notification requested   *)
C11_Witness ==
    /\ run[1].pc = "done"
    /\ CleanRun(run[1])
    /\ run[1].fetched.total_amount = 1000000
    /\ ~run[1].cmd.force_approval
    /\ run[1].cmd.notify_on_complete
    /\ run[1].result.success
    /\ Stored(run[1]).status = COMPLETED

(* frame r was called on a valid, unlocked PENDING PO, repository and       *)
(* gateway did not fail, and the snapshot it got, if any, matches the PO   *)
ManualRun(r) ==
    /\ r.has_po
    /\ r.fetched.status = PENDING
    /\ r.fetched.locked_by = None
    /\ validate(r.fetched) = <<>>
    /\ FailedCalls(r) \subseteq NOTIFICATIONS
    /\ r.sap_data # <<>> => Discrepancies(r.fetched, r.sap_data) = <<>>
    /\ r.fetched.total_amount > 1000000 \/ r.cmd.force_approval

(* the transition to new_status was made on the aggregate of frame r *)
Transitioned(r, new_status) ==
    \E i \in DOMAIN r.po.events :
        /\ r.po.events[i].event_type = "status_changed"
        /\ r.po.events[i].data.to = new_status

(* C12: execute on a valid, unlocked PENDING PO with a matching snapshot,  *)
(* above 10000.00 or with force_approval set, returns success with         *)
(* approval status "pending", the PO stored in AWAITING_APPROVAL, no       *)
(* post_invoice call, one approval-required notification, no completion    *)
(* notification and no transition to COMPLETED.                            *)
C12_ManualPathParks ==
    \A p \in Procs :
        run[p].pc = "done" /\ ManualRun(run[p]) =>
            /\ run[p].result.success
            /\ run[p].result.approval_status = "pending"
            /\ Stored(run[p]).status = AWAITING_APPROVAL
            /\ CallCount(run[p], "post_invoice") = 0
            /\ CallCount(run[p], "notify_approval_required") = 1
            /\ CallCount(run[p], "notify_completed") = 0
            /\ ~Transitioned(run[p], COMPLETED)

(* a run parked for manual approval with every collaborator working *)
C12_Witness ==
    /\ run[1].pc = "done"
    /\ ManualRun(run[1])
    /\ FailedCalls(run[1]) = {}
    /\ run[1].result.success
    /\ Stored(run[1]).status = AWAITING_APPROVAL

(* the aggregate held an unexpired lock when the last operation was made *)
WasLocked ==
    /\ last.before.locked_by # None
    /\ last.at <= last.before.lock_expires_at

(* the aggregate held a lock that had expired when the last operation was  *)
(* made                                                                    *)
WasExpired ==
    /\ last.before.locked_by # None
    /\ last.before.lock_expires_at # NoTime
    /\ last.at > last.before.lock_expires_at

LockCleared(po) ==
    /\ po.locked_by = None
    /\ po.locked_at = NoTime
    /\ po.lock_expires_at = NoTime

(* po's log is the log of before plus one event of the given type *)
OneMoreEvent(po, before, event_type) ==
    /\ Len(po.events) = Len(before.events) + 1
    /\ SubSeq(po.events, 1, Len(before.events)) = before.events
    /\ po.events[Len(po.events)].event_type = event_type

(* C13: acquire_lock on a PO holding an unexpired lock fails for every     *)
(* requester, the holder included, and leaves the aggregate (holder,       *)
(* expiry, status, version, audit log) unchanged.                          *)
C13_LockedRefusesAll ==
    last.op = "acquire_lock" /\ WasLocked =>
        /\ ~last.ok
        /\ agg = last.before

(* the holder itself was refused *)
C13_Witness ==
    /\ last.op = "acquire_lock"
    /\ WasLocked
    /\ last.user = last.before.locked_by
    /\ ~last.ok

(* C14: acquire_lock(actor, duration) on a PO for which is_locked() is     *)
(* false succeeds in every status: holder = actor, expiry = now +          *)
(* duration, status = LOCKED, and a lock_acquired event is appended.       *)
C14_UnlockedAlwaysAcquires ==
    last.op = "acquire_lock" /\ ~is_locked(last.before, last.at).ret =>
        /\ last.ok
        /\ agg.locked_by = last.user
        /\ agg.lock_expires_at = last.at + LOCK_DURATION_MINUTES
        /\ agg.status = LOCKED
        /\ agg.events # <<>>
        /\ agg.events[Len(agg.events)].event_type = "lock_acquired"

(* C15: when A's lock has expired on a PO left in LOCKED, PROCESSING,      *)
(* RECONCILING or AWAITING_APPROVAL, acquire_lock(B) for B # A succeeds    *)
(* and makes B the holder.                                                 *)
C15_ExpiredLockTakenOver ==
    /\ last.op = "acquire_lock"
    /\ WasExpired
    /\ last.user # last.before.locked_by
    /\ last.before.status \in {LOCKED, PROCESSING, RECONCILING, AWAITING_APPROVAL}
    => /\ last.ok
       /\ agg.locked_by = last.user
       /\ agg.status = LOCKED

C17_ExpiryIsIdempotent ==
    last.op = "is_locked" /\ WasExpired =>
        /\ ~last.ret
        /\ LockCleared(agg)
        /\ OneMoreEvent(agg, last.before, "lock_expired")
        /\ agg.status = last.before.status
        /\ \A t \in {last.at, now} :
                is_locked(agg, t) = [ret |-> FALSE, po |-> agg]

(* an expired lock was found and cleared *)
C17_Witness ==
    /\ last.op = "is_locked"
    /\ WasExpired
    /\ ~last.ret
    /\ agg.events # last.before.events

(* the last aggregate operation completed without raising *)
Completed ==
    /\ last.op # None
    /\ last.op = "is_locked" \/ last.ok

(* C18: every aggregate operation that completes and changes a field or    *)
(* appends an audit event leaves version strictly greater than before.     *)
C18_VersionGrowsWithMutation ==
    Completed /\ agg # last.before => agg.version > last.before.version

---------------------------------------------------------------------------
(* ApprovePOUseCase, RejectPOUseCase and BulkApprovePOUseCase: the frame   *)
(* of one call, a step per awaited collaborator call                       *)

MISSING == "PO-0000"

(* ApprovalResult, with the dataclass defaults; result.po is the frame's po *)
ApprovalResult(success, message, action, invoice_posted, errors) ==
    [success |-> success, message |-> message, action |-> action,
     invoice_posted |-> invoice_posted, errors |-> errors]

(* where a finished Approve goes: back to its caller, or to the bulk loop *)
AfterApprove(r) == IF r.bulk.active THEN "b_collect" ELSE "done"

(* the outer except block of ApprovePOUseCase.execute *)
ApproveFailed(r, msg) ==
    [r EXCEPT !.pc = AfterApprove(r),
              !.result = ApprovalResult(FALSE, <<"Failed to approve PO:">> \o msg,
                                        "approved", FALSE, <<msg>>)]

(* the outer except block of RejectPOUseCase.execute *)
RejectFailed(r, msg) ==
    [r EXCEPT !.pc = "done",
              !.result = ApprovalResult(FALSE, <<"Failed to reject PO:">> \o msg,
                                        "rejected", FALSE, <<msg>>)]

(* a gate that lets through what the aggregate itself would approve *)
InvalidApproval_as_aggregate(po) ==
    po.status \notin {AWAITING_APPROVAL, RECONCILING}

(* the precondition of Approve fails: InvalidApprovalException *)
InvalidApproval(po) ==
    po.status # AWAITING_APPROVAL

(* the precondition of Reject fails: InvalidRejectionException *)
InvalidRejection(po) ==
    po.status # AWAITING_APPROVAL

(* ApprovePOUseCase.execute(command) is entered *)
StartApprove(p, callers) ==
    /\ calls < MaxCalls
    /\ run[p].pc = "idle"
    /\ \E po_number \in PONumbers \cup {MISSING}, approved_by \in callers,
          notes \in {<<>>, <<"looks fine">>}, post_invoice, notify \in BOOLEAN :
            run' = [run EXCEPT ![p] =
                [IdleRun EXCEPT
                    !.pc = "a_fetch",
                    !.cmd = [po_number |-> po_number, approved_by |-> approved_by,
                             notes |-> notes, post_invoice |-> post_invoice,
                             notify |-> notify]]]
    /\ calls' = calls + 1
    /\ UNCHANGED <<now, repo, sap, agg, last>>

(* Approve steps 1-3: fetch the PO, check it awaits approval, po.approve *)
ApproveFetch(p, E) ==
    /\ run[p].pc = "a_fetch"
    /\ \E out \in RepoOutcomes(E, run[p]) :
        LET r == run[p]
            po == get_by_po_number(repo, r.cmd.po_number)
            got == [Called(r, "get_by_po_number", "ok") EXCEPT
                        !.has_po = TRUE, !.po = po, !.fetched = po,
                        !.fetched_status = po.status]
            ap == approve(po, r.cmd.approved_by, r.cmd.notes, now)
        IN
        run' = [run EXCEPT ![p] =
            IF out = "raise"
            THEN ApproveFailed(Called(r, "get_by_po_number", "raise"),
                               <<"get failed">>)
            ELSE IF ~exists(repo, r.cmd.po_number)
            THEN ApproveFailed(Called(r, "get_by_po_number", "none"),
                               <<"PO not found:", r.cmd.po_number>>)
            ELSE IF InvalidApproval(po)
            THEN ApproveFailed(got, <<"Cannot approve PO", po.po_number,
                                      "in status", po.status>>)
            ELSE IF ~ap.ok
            THEN ApproveFailed(got, <<"Cannot approve PO in status", po.status>>)
            ELSE [got EXCEPT !.pc = "a_save", !.po = ap.po]]
    /\ UNCHANGED <<now, repo, sap, calls, agg, last>>

(* Approve step 4: save the approved PO *)
ApproveSave(p, E) ==
    /\ run[p].pc = "a_save"
    /\ \E out \in RepoOutcomes(E, run[p]) :
        LET r == run[p] IN
        IF out = "ok"
        THEN /\ repo' = save(repo, r.po)
             /\ run' = [run EXCEPT ![p] =
                            [Called(r, "save", "ok") EXCEPT !.pc = "a_invoice"]]
        ELSE /\ repo' = repo
             /\ run' = [run EXCEPT ![p] =
                            ApproveFailed(Called(r, "save", "raise"),
                                          <<"save failed">>)]
    /\ UNCHANGED <<now, sap, calls, agg, last>>

(* Approve step 5: _post_invoice, and on success the transition to COMPLETED *)
ApproveInvoice(p, E) ==
    /\ run[p].pc = "a_invoice"
    /\ LET r == run[p] IN
       IF ~r.cmd.post_invoice
       THEN /\ run' = [run EXCEPT ![p] = [r EXCEPT !.pc = "a_notify"]]
            /\ sap' = sap
       ELSE \E out \in CallOutcomes(E, r) :
            IF out = "raise"
            THEN /\ run' = [run EXCEPT ![p] =
                        [Called(r, "post_invoice", "raise") EXCEPT !.pc = "a_notify"]]
                 /\ sap' = sap
            ELSE LET tr == transition_to(r.po, COMPLETED,
                                         <<"Completed after approval">>,
                                         r.cmd.approved_by, now)
                 IN /\ sap' = [sap EXCEPT !.posted_invoices = @ + 1]
                    /\ run' = [run EXCEPT ![p] =
                        [Called(r, "post_invoice", "ok") EXCEPT
                            !.invoice_posted = TRUE,
                            !.pc = IF tr.ok THEN "a_complete" ELSE "a_notify",
                            !.po = IF tr.ok THEN tr.po ELSE @]]
    /\ UNCHANGED <<now, repo, calls, agg, last>>

(* Approve step 5, the save of the completed PO; a failure is only logged *)
ApproveComplete(p, E) ==
    /\ run[p].pc = "a_complete"
    /\ \E out \in RepoOutcomes(E, run[p]) :
        LET r == run[p] IN
        /\ repo' = IF out = "ok" THEN save(repo, r.po) ELSE repo
        /\ run' = [run EXCEPT ![p] =
                        [Called(r, "save", out) EXCEPT !.pc = "a_notify"]]
    /\ UNCHANGED <<now, sap, calls, agg, last>>

(* Approve steps 6-7: notify_approved (a failure is only logged), result *)
ApproveNotify(p, E) ==
    /\ run[p].pc = "a_notify"
    /\ LET r == run[p]
           done(q) == [q EXCEPT
                !.pc = AfterApprove(r),
                !.result = ApprovalResult(TRUE,
                               <<"PO", r.po.po_number, "approved successfully">>,
                               "approved", r.invoice_posted, <<>>)]
       IN IF ~r.cmd.notify
          THEN run' = [run EXCEPT ![p] = done(r)]
          ELSE \E out \in NotifyOutcomes(E, r) :
                run' = [run EXCEPT ![p] = done(Called(r, "notify_approved", out))]
    /\ UNCHANGED <<now, repo, sap, calls, agg, last>>

(* RejectPOUseCase.execute(command) is entered *)
StartReject(p, callers) ==
    /\ calls < MaxCalls
    /\ run[p].pc = "idle"
    /\ \E po_number \in PONumbers \cup {MISSING}, rejected_by \in callers,
          can_retry, notify \in BOOLEAN :
            run' = [run EXCEPT ![p] =
                [IdleRun EXCEPT
                    !.pc = "r_fetch",
                    !.cmd = [po_number |-> po_number, rejected_by |-> rejected_by,
                             reason |-> <<"wrong vendor">>,
                             can_retry |-> can_retry, notify |-> notify]]]
    /\ calls' = calls + 1
    /\ UNCHANGED <<now, repo, sap, agg, last>>

(* Reject steps 1-3: fetch the PO, check it awaits approval, po.reject *)
RejectFetch(p, E) ==
    /\ run[p].pc = "r_fetch"
    /\ \E out \in RepoOutcomes(E, run[p]) :
        LET r == run[p]
            po == get_by_po_number(repo, r.cmd.po_number)
            got == [Called(r, "get_by_po_number", "ok") EXCEPT
                        !.has_po = TRUE, !.po = po, !.fetched = po,
                        !.fetched_status = po.status]
            rj == reject(po, r.cmd.rejected_by, r.cmd.reason, now)
        IN
        run' = [run EXCEPT ![p] =
            IF out = "raise"
            THEN RejectFailed(Called(r, "get_by_po_number", "raise"),
                              <<"get failed">>)
            ELSE IF ~exists(repo, r.cmd.po_number)
            THEN RejectFailed(Called(r, "get_by_po_number", "none"),
                              <<"PO not found:", r.cmd.po_number>>)
            ELSE IF InvalidRejection(po)
            THEN RejectFailed(got, <<"Cannot reject PO", po.po_number,
                                     "in status", po.status>>)
            ELSE IF ~rj.ok
            THEN RejectFailed(got, <<"Cannot reject PO in status", po.status>>)
            ELSE [got EXCEPT !.pc = "r_save", !.po = rj.po]]
    /\ UNCHANGED <<now, repo, sap, calls, agg, last>>

(* Reject steps 4-5: save the rejected PO; then, if it is locked, release   *)
(* the lock as the rejecting user (a refusal is only logged)               *)
RejectSave(p, E) ==
    /\ run[p].pc = "r_save"
    /\ \E out \in RepoOutcomes(E, run[p]) :
        LET r == run[p]
            l == is_locked(r.po, now)
            rel == release_lock(l.po, r.cmd.rejected_by, now)
        IN
        IF out = "raise"
        THEN /\ repo' = repo
             /\ run' = [run EXCEPT ![p] =
                            RejectFailed(Called(r, "save", "raise"),
                                         <<"save failed">>)]
        ELSE /\ repo' = save(repo, r.po)
             /\ run' = [run EXCEPT ![p] =
                    [Called(r, "save", "ok") EXCEPT
                        !.pc = IF l.ret /\ rel.ok THEN "r_release" ELSE "r_notify",
                        !.po = IF l.ret THEN rel.po ELSE l.po]]
    /\ UNCHANGED <<now, sap, calls, agg, last>>

(* Reject step 5: the save after release_lock; a failure is only logged *)
RejectRelease(p, E) ==
    /\ run[p].pc = "r_release"
    /\ \E out \in RepoOutcomes(E, run[p]) :
        LET r == run[p] IN
        /\ repo' = IF out = "ok" THEN save(repo, r.po) ELSE repo
        /\ run' = [run EXCEPT ![p] =
                        [Called(r, "save", out) EXCEPT !.pc = "r_notify"]]
    /\ UNCHANGED <<now, sap, calls, agg, last>>

(* Reject steps 6-7: notify_rejected (a failure is only logged), result *)
RejectNotify(p, E) ==
    /\ run[p].pc = "r_notify"
    /\ LET r == run[p]
           done(q) == [q EXCEPT
                !.pc = "done",
                !.result = ApprovalResult(TRUE,
                               <<"PO", r.po.po_number, "rejected">>,
                               "rejected", FALSE, <<>>)]
       IN IF ~r.cmd.notify
          THEN run' = [run EXCEPT ![p] = done(r)]
          ELSE \E out \in NotifyOutcomes(E, r) :
                run' = [run EXCEPT ![p] = done(Called(r, "notify_rejected", out))]
    /\ UNCHANGED <<now, repo, sap, calls, agg, last>>

(* a tally that leaves failed entries out *)
Collect_approved_only(b, result) ==
    IF result.success
    THEN [b EXCEPT !.results = Append(@, result), !.approved = @ + 1]
    ELSE b

(* results.append(result) and the two counters of the bulk loop *)
Collect(b, result) ==
    [b EXCEPT !.results = Append(@, result),
              !.approved = IF result.success THEN @ + 1 ELSE @,
              !.failed = IF result.success THEN @ ELSE @ + 1]

(* the lists a bulk approval is called with *)
BulkLists == {<<>>, <<PO1>>, <<PO1, PO1>>, <<MISSING, PO1>>}

(* BulkApprovePOUseCase.execute(command) is entered *)
StartBulk(p, callers) ==
    /\ calls < MaxCalls
    /\ run[p].pc = "idle"
    /\ \E po_numbers \in BulkLists, approved_by \in callers,
          post_invoices \in BOOLEAN :
            run' = [run EXCEPT ![p] =
                [IdleRun EXCEPT
                    !.pc = "b_next",
                    !.bulk = [active |-> TRUE, po_numbers |-> po_numbers,
                              approved_by |-> approved_by, notes |-> <<>>,
                              post_invoices |-> post_invoices, idx |-> 0,
                              invoked |-> <<>>,
                              results |-> <<>>, approved |-> 0, failed |-> 0]]]
    /\ calls' = calls + 1
    /\ UNCHANGED <<now, repo, sap, agg, last>>

(* the bulk loop: Approve is entered for the next PO number, without a      *)
(* notification; after the last one the BulkApprovalResult is returned     *)
BulkNext(p) ==
    /\ run[p].pc = "b_next"
    /\ LET r == run[p]
           b == r.bulk
       IN run' = [run EXCEPT ![p] =
            IF b.idx < Len(b.po_numbers)
            THEN [r EXCEPT
                    !.pc = "a_fetch",
                    !.bulk.idx = @ + 1,
                    !.bulk.invoked = Append(@, b.po_numbers[b.idx + 1]),
                    !.cmd = [po_number |-> b.po_numbers[b.idx + 1],
                             approved_by |-> b.approved_by, notes |-> b.notes,
                             post_invoice |-> b.post_invoices, notify |-> FALSE],
                    !.has_po = FALSE, !.po = NullPO, !.fetched = NullPO,
                    !.fetched_status = None, !.invoice_posted = FALSE,
                    !.result = NoResult, !.trace = <<>>]
            ELSE [r EXCEPT
                    !.pc = "done",
                    !.result = [total |-> Len(b.po_numbers),
                                approved |-> b.approved, failed |-> b.failed,
                                results |-> b.results]]]
    /\ UNCHANGED <<now, repo, sap, calls, agg, last>>

(* the bulk loop: the result of one Approve is counted and kept *)
BulkCollect(p) ==
    /\ run[p].pc = "b_collect"
    /\ LET r == run[p] IN
       run' = [run EXCEPT ![p] =
            [r EXCEPT !.pc = "b_next", !.bulk = Collect(@, r.result)]]
    /\ UNCHANGED <<now, repo, sap, calls, agg, last>>

ApproveSteps(p, E) ==
    \/ ApproveFetch(p, E)
    \/ ApproveSave(p, E)
    \/ ApproveInvoice(p, E)
    \/ ApproveComplete(p, E)
    \/ ApproveNotify(p, E)

RejectSteps(p, E) ==
    \/ RejectFetch(p, E)
    \/ RejectSave(p, E)
    \/ RejectRelease(p, E)
    \/ RejectNotify(p, E)

BulkSteps(p) ==
    \/ BulkNext(p)
    \/ BulkCollect(p)

(* the persisted POs the handlers are called on: the seeds of the saga, a   *)
(* PO parked for approval by a run of ana (which keeps its lock), and POs  *)
(* in the two final statuses                                               *)
SeedParked ==
    [SeedAbove(AWAITING_APPROVAL) EXCEPT
        !.locked_by = "ana", !.locked_at = 0,
        !.lock_expires_at = LOCK_DURATION_MINUTES]

HandlerSeeds ==
    SeedPOs \cup {SeedParked, SeedWithDoc(COMPLETED), SeedWithDoc(CANCELLED)}

InitHandlers ==
    /\ now = 0
    /\ \E po \in HandlerSeeds : repo = save(<<>>, po)
    /\ run = [p \in Procs |-> IdleRun]
    /\ sap = [posted_invoices |-> 0]
    /\ calls = 0
    /\ agg = NullPO
    /\ last = NoOp

(* execute(command) is entered with a PO number the repository lacks *)
StartMissing(p, callers) ==
    /\ calls < MaxCalls
    /\ run[p].pc = "idle"
    /\ \E user \in callers,
          force_approval, skip_sap_lock, notify_on_complete \in BOOLEAN :
            run' = [run EXCEPT ![p] =
                [IdleRun EXCEPT
                    !.pc = "fetch",
                    !.cmd = [po_number |-> MISSING, user |-> user,
                             force_approval |-> force_approval,
                             skip_sap_lock |-> skip_sap_lock,
                             notify_on_complete |-> notify_on_complete]]]
    /\ calls' = calls + 1
    /\ UNCHANGED <<now, repo, sap, agg, last>>

(* one caller, one call at a time: execute, Approve, Reject or bulk approve *)
NextHandlers ==
    \/ Start(1, Users)
    \/ StartMissing(1, Users)
    \/ StartApprove(1, Users)
    \/ StartReject(1, Users)
    \/ StartBulk(1, Users)
    \/ Steps(1, EnvAny)
    \/ ApproveSteps(1, EnvAny)
    \/ RejectSteps(1, EnvAny)
    \/ BulkSteps(1)
    \/ Tick

SpecHandlers == InitHandlers /\ [][NextHandlers]_vars

---------------------------------------------------------------------------
(* The audit log *)

IsPrefix(s, t) == Len(s) <= Len(t) /\ SubSeq(t, 1, Len(s)) = s

(* the aggregates at rest: the persisted ones, while no call is running *)
KnownPOs ==
    IF \A p \in Procs : run[p].pc = "idle"
    THEN {repo[n] : n \in DOMAIN repo}
    ELSE {}

(* what the aggregate operations leave of po, whether they raise or not *)
OperationResults(po) ==
    {transition_to(po, s, <<"by hand">>, u, now).po : s \in POStatus, u \in Users}
    \cup {acquire_lock(po, u, LOCK_DURATION_MINUTES, now).po : u \in Users}
    \cup {release_lock(po, u, now).po : u \in Users}
    \cup {is_locked(po, now).po}
    \cup {approve(po, u, <<>>, now).po : u \in Users}
    \cup {reject(po, u, <<"wrong vendor">>, now).po : u \in Users}
    \cup {add_event(po, "reconciliation_completed", <<>>, now)}

(* every aggregate operation, in every status, extends the log it finds *)
OperationsAppend ==
    \A po \in KnownPOs, status \in POStatus :
        \A res \in OperationResults([po EXCEPT !.status = status]) :
            IsPrefix(po.events, res.events)

(* a step of a run extends the log of its aggregate and the persisted log *)
RunsAppend ==
    /\ \A n \in DOMAIN repo :
            n \in DOMAIN repo' /\ IsPrefix(repo[n].events, repo'[n].events)
    /\ \A p \in Procs :
            run[p].has_po /\ run'[p].has_po
                => IsPrefix(run[p].po.events, run'[p].po.events)
    /\ IsPrefix(agg.events, agg'.events)

(* C19: the audit log is append-only: every aggregate operation, on any     *)
(* persisted aggregate and in any status, and every step of an             *)
(* execute, Approve or Reject run leaves an event list of which the list   *)
(* before it is a prefix, whether the operation succeeds or fails; no      *)
(* event is ever removed from the persisted log                            *)
C19_AuditLogAppendOnly == [](OperationsAppend) /\ [][RunsAppend]_vars

---------------------------------------------------------------------------
(* The final statuses *)

FINAL_STATUSES == {COMPLETED, CANCELLED}

(* C20: COMPLETED and CANCELLED are absorbing: once the persisted status    *)
(* of a PO is COMPLETED or CANCELLED, no step of any execute, Approve,     *)
(* Reject or bulk-approve call changes the persisted status                *)
C20_FinalStatusesAbsorbing ==
    [][\A n \in DOMAIN repo :
            repo[n].status \in FINAL_STATUSES
                => n \in DOMAIN repo' /\ repo'[n].status = repo[n].status]_vars

---------------------------------------------------------------------------
(* The reconciliation failure *)

(* the events the aggregate of frame r got since it was fetched *)
EventsOfRun(r) ==
    {r.po.events[i] : i \in (Len(r.fetched.events) + 1)..Len(r.po.events)}

(* execute returned by its main sequence, after reconciliation had found a  *)
(* discrepancy between the PO and the snapshot and had recorded it          *)
ReconciliationFailed(r) ==
    /\ r.pc = "done"
    /\ r.has_po
    /\ r.sap_data # <<>>
    /\ Discrepancies(r.po, r.sap_data) # <<>>
    /\ r.exc = NoExc

---------------------------------------------------------------------------
(* Reconciliation on its own: _reconcile_data applied to a PO in any status *)
(* and a snapshot that may lack keys, differ by a cent or two, and list    *)
(* other items                                                             *)

SNAPSHOT_KEYS == {"vendor_code", "total_amount", "items"}

(* a snapshot that has the given keys only *)
Snapshot(keys, vendor_code, total_amount, items) ==
    [k \in keys |->
        IF k = "vendor_code" THEN vendor_code
        ELSE IF k = "total_amount" THEN total_amount ELSE items]

(* as many items as the PO has, under other numbers and prices *)
OtherItems(items) ==
    [i \in 1..Len(items) |-> [item_number |-> "99", unit_price |-> 1]]

ReconcileSnapshots(po) ==
    {Snapshot(keys, v, t, it) :
        keys \in SUBSET SNAPSHOT_KEYS,
        v \in {po.vendor_code, "V999"},
        t \in {po.total_amount - 2, po.total_amount - 1, po.total_amount,
               po.total_amount + 1, po.total_amount + 2},
        it \in {SnapshotItems(po.items), OtherItems(po.items),
                Append(SnapshotItems(po.items), [item_number |-> "99"]),
                <<>>}}

ReconcileSeeds ==
    {SeedWithDoc(status) : status \in POStatus}
    \cup {SeedAbove(status) : status \in POStatus}
    \cup {PurchaseOrder(PO1, "V014", "Fornecedor Beta", 0, <<>>, RECONCILING)}

InitReconcile ==
    /\ now = 0
    /\ repo = <<>>
    /\ run = [p \in Procs |-> IdleRun]
    /\ sap = [posted_invoices |-> 0]
    /\ calls = 0
    /\ agg \in ReconcileSeeds
    /\ last = NoOp

(* _reconcile_data(po, sap_data), without its save *)
AggReconcile ==
    /\ last = NoOp
    /\ \E sap_data \in ReconcileSnapshots(agg) :
        /\ agg' = _reconcile_data(agg, sap_data)
        /\ last' = [op |-> "_reconcile_data", at |-> now, sap_data |-> sap_data,
                    before |-> agg,
                    discrepancies |-> Discrepancies(agg, sap_data),
                    ret |-> Discrepancies(agg, sap_data) = <<>>]
    /\ UNCHANGED <<now, repo, run, sap, calls>>

NextReconcile == AggReconcile

SpecReconcile == InitReconcile /\ [][NextReconcile]_vars

(* the three conditions of the specification, on the call last made *)
SameVendor ==
    "vendor_code" \in DOMAIN last.sap_data
        /\ last.sap_data.vendor_code = last.before.vendor_code

SnapshotTotal ==
    IF "total_amount" \in DOMAIN last.sap_data THEN last.sap_data.total_amount ELSE 0

TotalWithinTolerance ==
    /\ last.before.total_amount - SnapshotTotal <= 1
    /\ SnapshotTotal - last.before.total_amount <= 1

SnapshotItemCount ==
    IF "items" \in DOMAIN last.sap_data THEN Len(last.sap_data.items) ELSE 0

SameItemCount == Len(last.before.items) = SnapshotItemCount

Count(b) == IF b THEN 1 ELSE 0

---------------------------------------------------------------------------
(* The approval handlers *)

IsApprove(r) == "approved_by" \in DOMAIN r.cmd
IsReject(r) == "rejected_by" \in DOMAIN r.cmd

(* an Approve or Reject call has its ApprovalResult *)
Answered(r) ==
    /\ IsApprove(r) \/ IsReject(r)
    /\ r.pc = "b_collect" \/ (r.pc = "done" /\ ~r.bulk.active)

(* the call was made on a missing PO or on one that is not awaiting approval *)
NotAwaiting(r) ==
    \/ ~exists(repo, r.cmd.po_number)
    \/ r.has_po /\ r.fetched.status # AWAITING_APPROVAL

(* C23: Approve and Reject called on a missing PO, or on a PO in any        *)
(* status other than AWAITING_APPROVAL, return success = false, save       *)
(* nothing, post no invoice and send no notification; the persisted PO,    *)
(* its status, approver and rejection reason included, is as it was        *)
C23_ApprovalGated ==
    \A p \in Procs :
        Answered(run[p]) /\ NotAwaiting(run[p]) =>
            /\ ~run[p].result.success
            /\ run[p].result.errors # <<>>
            /\ CallCount(run[p], "save") = 0
            /\ CallCount(run[p], "post_invoice") = 0
            /\ MadeCalls(run[p]) \cap {"notify_approved", "notify_rejected"} = {}
            /\ run[p].has_po =>
                    /\ Stored(run[p]) = run[p].fetched
                    /\ Stored(run[p]).status = run[p].fetched.status
                    /\ Stored(run[p]).approved_by = run[p].fetched.approved_by
                    /\ Stored(run[p]).rejection_reason = run[p].fetched.rejection_reason

(* Reject was refused on a PO that a failed reconciliation left RECONCILING *)
C23_Witness ==
    /\ Answered(run[1])
    /\ IsReject(run[1])
    /\ run[1].has_po
    /\ run[1].fetched.status = RECONCILING
    /\ ~run[1].result.success

---------------------------------------------------------------------------
(* A successful approval *)

Posted(r) == \E i \in DOMAIN r.trace : r.trace[i] = <<"post_invoice", "ok">>

(* C24: when Approve returns success, the persisted approved_by is the      *)
(* approver; post_invoice was called once if it was requested and not at   *)
(* all otherwise; the persisted status is COMPLETED if the posting         *)
(* succeeded and APPROVED if not; the result's invoice_posted is the       *)
(* posting outcome; notify_approved was called once if notify is set and   *)
(* not at all otherwise                                                    *)
C24_ApproveOutcome ==
    \A p \in Procs :
        Answered(run[p]) /\ IsApprove(run[p]) /\ run[p].result.success =>
            /\ run[p].fetched.status = AWAITING_APPROVAL
            /\ Stored(run[p]).approved_by = run[p].cmd.approved_by
            /\ CallCount(run[p], "post_invoice") =
                    (IF run[p].cmd.post_invoice THEN 1 ELSE 0)
            /\ Stored(run[p]).status =
                    (IF Posted(run[p]) THEN COMPLETED ELSE APPROVED)
            /\ run[p].result.invoice_posted = Posted(run[p])
            /\ CallCount(run[p], "notify_approved") =
                    (IF run[p].cmd.notify THEN 1 ELSE 0)

---------------------------------------------------------------------------
(* A successful rejection *)

(* C25: when Reject returns success, the persisted PO is REJECTED with the  *)
(* given reason and is not locked, whoever held the lock and whoever       *)
(* rejects; notify_rejected was called once if notify is set and not at    *)
(* all otherwise                                                           *)
C25_RejectOutcome ==
    \A p \in Procs :
        Answered(run[p]) /\ IsReject(run[p]) /\ run[p].result.success =>
            /\ run[p].fetched.status = AWAITING_APPROVAL
            /\ Stored(run[p]).status = REJECTED
            /\ Stored(run[p]).rejection_reason = run[p].cmd.reason
            /\ ~is_locked(Stored(run[p]), now).ret
            /\ CallCount(run[p], "notify_rejected") =
                    (IF run[p].cmd.notify THEN 1 ELSE 0)

---------------------------------------------------------------------------
(* Bulk approval *)

BulkAnswered(r) == r.bulk.active /\ r.pc = "done"

(* the entries of the list with PO number n that were approved *)
ApprovedEntries(r, n) ==
    {i \in DOMAIN r.result.results :
        r.bulk.po_numbers[i] = n /\ r.result.results[i].success}

(* C26: a bulk approval calls Approve once per list entry, in list order    *)
(* and one at a time, also after an entry failed; its result has one       *)
(* entry per input, approved and failed add up to the total, and a PO      *)
(* number listed twice is approved at most once                            *)
C26_BulkApproval ==
    \A p \in Procs :
        /\ run[p].bulk.active =>
                /\ run[p].bulk.invoked = SubSeq(run[p].bulk.po_numbers, 1, run[p].bulk.idx)
                /\ Len(run[p].bulk.results) \in {run[p].bulk.idx - 1, run[p].bulk.idx}
                /\ run[p].pc \in {"b_next", "b_collect", "done"}
                        => Len(run[p].bulk.results) + (IF run[p].pc = "b_collect" THEN 1 ELSE 0)
                                = run[p].bulk.idx
        /\ BulkAnswered(run[p]) =>
                /\ run[p].bulk.invoked = run[p].bulk.po_numbers
                /\ run[p].result.total = Len(run[p].bulk.po_numbers)
                /\ Len(run[p].result.results) = run[p].result.total
                /\ run[p].result.approved + run[p].result.failed = run[p].result.total
                /\ run[p].result.approved =
                        Cardinality({i \in DOMAIN run[p].result.results :
                                        run[p].result.results[i].success})
                /\ \A n \in PONumbers \cup {MISSING} :
                        Cardinality(ApprovedEntries(run[p], n)) <= 1

(* a bulk approval whose first entry failed and whose second was approved *)
C26_Witness ==
    /\ BulkAnswered(run[1])
    /\ run[1].bulk.po_numbers = <<MISSING, PO1>>
    /\ ~run[1].result.results[1].success
    /\ run[1].result.results[2].success
    /\ run[1].result.approved = 1
    /\ run[1].result.failed = 1

---------------------------------------------------------------------------
(* The requeue of a PO in ERROR *)

(* execute was called on a valid, unlocked PO persisted in ERROR, and no    *)
(* collaborator call of the run failed                                      *)
RequeuedRun(r) ==
    /\ r.has_po
    /\ r.pc \notin {"idle", "fetch", "requeue"}
    /\ "user" \in DOMAIN r.cmd
    /\ r.fetched.status = ERROR
    /\ r.fetched.locked_by = None
    /\ validate(r.fetched) = <<>>
    /\ FailedCalls(r) = {}
    /\ r.sap_data # <<>> => Discrepancies(r.fetched, r.sap_data) = <<>>

FirstEventOfRun(r) == r.po.events[Len(r.fetched.events) + 1]

(* C27: execute on a PO persisted in ERROR first transitions it to PENDING  *)
(* and saves that, then runs the normal sequence: with valid data, no      *)
(* lock held, a matching snapshot and working collaborators it ends as a   *)
(* run from PENDING does, COMPLETED when the total is within the threshold *)
(* and approval is not forced, AWAITING_APPROVAL otherwise                 *)
C27_ErrorIsRequeued ==
    \A p \in Procs :
        RequeuedRun(run[p]) =>
            /\ Len(run[p].po.events) > Len(run[p].fetched.events)
            /\ FirstEventOfRun(run[p]).event_type = "status_changed"
            /\ FirstEventOfRun(run[p]).data.from = ERROR
            /\ FirstEventOfRun(run[p]).data.to = PENDING
            /\ run[p].trace[2] = <<"save", "ok">>
            /\ run[p].pc = "validate" => Stored(run[p]).status = PENDING
            /\ run[p].pc = "done" =>
                    /\ run[p].result.success
                    /\ Stored(run[p]).status =
                            (IF RequiresManual(run[p])
                             THEN AWAITING_APPROVAL ELSE COMPLETED)
                    /\ CallCount(run[p], "post_invoice") =
                            (IF RequiresManual(run[p]) THEN 0 ELSE 1)
                    /\ ~RequiresManual(run[p]) => Stored(run[p]).locked_by = None

(* a run on a PO that an earlier run had left in ERROR went through to      *)
(* COMPLETED                                                                *)
C27_Witness ==
    /\ run[1].pc = "done"
    /\ RequeuedRun(run[1])
    /\ run[1].result.success
    /\ Stored(run[1]).status = COMPLETED

---------------------------------------------------------------------------
(* What the callers get *)

IsExecute(r) == "user" \in DOMAIN r.cmd /\ ~r.bulk.active

(* the steps of whatever call frame p is in *)
CallSteps(p) ==
    \/ Steps(p, EnvAny)
    \/ ApproveSteps(p, EnvAny)
    \/ RejectSteps(p, EnvAny)
    \/ BulkSteps(p)

(* the operation of the answered call r failed: execute left its main       *)
(* sequence by an exception or found a discrepancy; Approve or Reject did  *)
(* not get its PO, was refused by its gate or could not save its decision  *)
OperationFailed(r) ==
    IF IsExecute(r)
    THEN \/ r.exc.type # None
         \/ ~r.has_po
         \/ r.sap_data # <<>> /\ Discrepancies(r.po, r.sap_data) # <<>>
    ELSE \/ ~r.has_po
         \/ r.fetched.status # AWAITING_APPROVAL
         \/ \E i \in DOMAIN r.trace :
                /\ r.trace[i] = <<"save", "raise">>
                /\ \A j \in 1..(i - 1) : r.trace[j][1] # "save"

(* C28: execute, Approve and Reject never let an exception reach their      *)
(* caller: whatever the PO (a missing one too) and whichever collaborator  *)
(* call fails (in the error cleanup too), the call goes on to its return,  *)
(* and when the operation failed the result has success = false and a      *)
(* non-empty error list                                                    *)
C28_NoExceptionEscapes ==
    \A p \in Procs :
        /\ run[p].pc # "raised"
        /\ run[p].pc # "idle" => ENABLED CallSteps(p)
        /\ (IsExecute(run[p]) /\ run[p].pc = "done") \/ Answered(run[p]) =>
                /\ OperationFailed(run[p]) => ~run[p].result.success
                /\ ~run[p].result.success =>
                        /\ run[p].result.errors # <<>>
                        /\ OperationFailed(run[p])

(* execute was refused the lock, and the save of its error cleanup failed *)
C28_Witness ==
    /\ IsExecute(run[1])
    /\ run[1].pc = "done"
    /\ run[1].has_po
    /\ run[1].exc.type = "POAlreadyLockedException"
    /\ run[1].trace[Len(run[1].trace)] = <<"save", "raise">>
    /\ ~run[1].result.success
    /\ run[1].result.errors # <<>>

---------------------------------------------------------------------------
(* Validation on its own: validate() applied to POs whose item totals and   *)
(* PO total are off by up to two cents either way                          *)

CentsOff == {0 - 2, 0 - 1, 0, 1, 2}

ValidateSeeds ==
    {[SeedBelow(PENDING) EXCEPT
        !.total_amount = 320000 + d1 + dt,
        !.items = <<POItem("10", 2, 160000, 320000 + d1)>>] :
        d1 \in CentsOff, dt \in CentsOff}
    \cup
    {[SeedAbove(PENDING) EXCEPT
        !.total_amount = 1250050 + d1 + d2 + dt,
        !.items = <<POItem("10", 10, 45005, 450050 + d1),
                    POItem("20", 50, 16000, 800000 + d2)>>] :
        d1 \in CentsOff, d2 \in CentsOff, dt \in CentsOff}

InitValidate ==
    /\ now = 0
    /\ repo = <<>>
    /\ run = [p \in Procs |-> IdleRun]
    /\ sap = [posted_invoices |-> 0]
    /\ calls = 0
    /\ agg \in ValidateSeeds
    /\ last = NoOp

(* po.validate() *)
AggValidate ==
    /\ last = NoOp
    /\ last' = [op |-> "validate", at |-> now, before |-> agg,
                errors |-> validate(agg)]
    /\ UNCHANGED <<now, repo, run, sap, calls, agg>>

NextValidate == AggValidate

SpecValidate == InitValidate /\ [][NextValidate]_vars

Reported(errors, msg) == \E i \in DOMAIN errors : errors[i] = msg

ItemsTotalOff(po) ==
    \/ SumTotalPrice(po.items) - po.total_amount > 1
    \/ po.total_amount - SumTotalPrice(po.items) > 1

ItemOff(item) ==
    \/ item.quantity * item.unit_price - item.total_price > 1
    \/ item.total_price - item.quantity * item.unit_price > 1

(* C29: validate() reports the items-total error exactly when the sum of    *)
(* the item totals differs from total_amount by more than 0.01, and an     *)
(* item-calculation error for an item exactly when quantity * unit_price   *)
(* differs from its total_price by more than 0.01; a difference of exactly *)
(* 0.01 passes both checks                                                 *)
C29_ValidateTolerance ==
    last.op = "validate" =>
        /\ Reported(last.errors, "Items total doesn't match PO total")
                <=> ItemsTotalOff(agg)
        /\ \A idx \in DOMAIN agg.items :
                Reported(last.errors, ItemError(idx)) <=> ItemOff(agg.items[idx])

(* validate() was applied to a PO whose only differences are of one cent *)
C29_Witness ==
    /\ last.op = "validate"
    /\ agg.items[1].total_price = agg.items[1].quantity * agg.items[1].unit_price + 1
    /\ agg.total_amount = SumTotalPrice(agg.items) + 1

---------------------------------------------------------------------------
(* The persisted version *)

(* C30: the persisted version counter is monotonic under concurrency: no    *)
(* step of interleaved calls on the same PO lowers the version stored in   *)
(* the repository                                                          *)
C30_PersistedVersionMonotonic ==
    [][\A n \in DOMAIN repo :
            n \in DOMAIN repo' /\ repo'[n].version >= repo[n].version]_vars

---------------------------------------------------------------------------
(* The order of the collaborator calls of one run *)

(* this step of frame p issues the collaborator call `call` *)
Issues(p, call) ==
    \E out \in {"ok", "true", "false", "raise"} :
        run'[p].trace = Append(run[p].trace, <<call, out>>)

(* the last thing frame r did was a successful save, and what is stored is *)
(* its copy, in status `status`                                            *)
JustSaved(r, status) ==
    /\ r.trace # <<>>
    /\ r.trace[Len(r.trace)] = <<"save", "ok">>
    /\ r.po.status = status
    /\ Stored(r).status = status
    /\ Stored(r).version = r.po.version

(* C31: in execute and in Approve post_invoice is called only after the    *)
(* run saved the PO as APPROVED (in execute with the reconciliation passed *)
(* and the lock of the caller saved), and notify_completed only after      *)
(* COMPLETED was saved and the lock released                               *)
C31_CallOrder ==
    [][\A p \in Procs :
        /\ Issues(p, "post_invoice") =>
            /\ JustSaved(run[p], APPROVED)
            /\ IsExecute(run[p]) =>
                /\ run[p].po.reconciliation_status = "success"
                /\ Discrepancies(run[p].po, run[p].sap_data) = <<>>
                /\ Stored(run[p]).locked_by = run[p].cmd.user
                /\ CallCount(run[p], "save") >= 2
        /\ Issues(p, "notify_completed") =>
            /\ Stored(run[p]).status = COMPLETED
            /\ Stored(run[p]).locked_by = None
            /\ run[p].po.status = COMPLETED
            /\ run[p].trace[Len(run[p].trace)][1] \in {"save", "unlock_document"}
      ]_vars

(* an execute that posted the invoice and announced the completion, or an  *)
(* Approve that posted the invoice, has returned                           *)
C31_Witness ==
    /\ run[1].pc = "done"
    /\ IsExecute(run[1])
    /\ <<"post_invoice", "ok">> \in {run[1].trace[i] : i \in DOMAIN run[1].trace}
    /\ "notify_completed" \in MadeCalls(run[1])

---------------------------------------------------------------------------
(* The invoices posted for a PO *)

(* C32: at most one invoice is ever posted for a PO: over all execute and  *)
(* Approve calls on the one PO number of the repository, post_invoice      *)
(* succeeds at most once                                                   *)
C32_AtMostOneInvoice ==
    sap.posted_invoices <= 1

---------------------------------------------------------------------------
(* One Approve and one Reject at once on a PO that awaits approval: caller *)
(* 1 approves, caller 2 rejects, each on the copy it fetched; the frames   *)
(* keep their result once the call has returned; the collaborators do not  *)
(* fail                                                                    *)

DecisionSeeds ==
    {SeedParked, SeedAbove(AWAITING_APPROVAL), SeedWithDoc(AWAITING_APPROVAL)}

InitDecision ==
    /\ now = 0
    /\ \E po \in DecisionSeeds : repo = save(<<>>, po)
    /\ run = [p \in Procs |-> IdleRun]
    /\ sap = [posted_invoices |-> 0]
    /\ calls = 0
    /\ agg = NullPO
    /\ last = NoOp

NextDecision ==
    \/ StartApprove(1, Users)
    \/ StartReject(2, Users)
    \/ ApproveSteps(1, EnvGood)
    \/ RejectSteps(2, EnvGood)
    \/ Tick

SpecDecision == InitDecision /\ [][NextDecision]_vars

(* both calls have returned, and they were made on the same PO *)
BothDecided ==
    /\ run[1].pc = "done"
    /\ run[2].pc = "done"
    /\ run[1].cmd.po_number = run[2].cmd.po_number
    /\ exists(repo, run[1].cmd.po_number)

(* C33: of one Approve and one Reject on the same PO in AWAITING_APPROVAL, *)
(* at most one returns success, and the PO does not end REJECTED with its  *)
(* invoice posted                                                          *)
C33_ApproveRejectExclusive ==
    BothDecided =>
        /\ ~(run[1].result.success /\ run[2].result.success)
        /\ ~(Stored(run[1]).status = REJECTED /\ sap.posted_invoices > 0)

---------------------------------------------------------------------------
(* Two execute calls of the same actor at once: ana calls execute from two *)
(* places, each call works on the copy it fetched; the collaborators do    *)
(* not fail                                                                *)

NextSameActor ==
    \/ Start(1, {"ana"})
    \/ Start(2, {"ana"})
    \/ \E p \in Procs : Steps(p, EnvGood)
    \/ Tick

SpecSameActor == Init /\ [][NextSameActor]_vars

(* frame r failed at lock acquisition on a copy whose lock has not expired *)
LockAttemptRejected(r) ==
    /\ r.pc = "cleanup"
    /\ r.exc.type = "POAlreadyLockedException"
    /\ is_locked(r.fetched, now).ret

(* C34: an execute call that fails at lock acquisition because the PO is   *)
(* locked leaves the persisted PO unchanged in status, lock holder and     *)
(* version, and sends no error notification                                *)
C34_RejectedLockAttemptHarmless ==
    [][\A p \in Procs :
        LockAttemptRejected(run[p]) /\ run'[p].pc = "done" =>
            /\ Stored(run[p])'.status = Stored(run[p]).status
            /\ Stored(run[p])'.locked_by = Stored(run[p]).locked_by
            /\ Stored(run[p])'.version = Stored(run[p]).version
            /\ "notify_error" \notin MadeCalls(run'[p])
      ]_vars

---------------------------------------------------------------------------
(* A failed acquire_lock *)

(* C35: whenever acquire_lock fails, holder, acquired-at, expires-at,      *)
(* status and version are what they were before the call, apart from the  *)
(* clearing of a lock that had already expired                             *)
C35_AcquireLockAtomic ==
    last.op = "acquire_lock" /\ ~last.ok =>
        LET before == is_locked(last.before, last.at).po
        IN  /\ agg.locked_by = before.locked_by
            /\ agg.locked_at = before.locked_at
            /\ agg.lock_expires_at = before.lock_expires_at
            /\ agg.status = before.status
            /\ agg.version = before.version

---------------------------------------------------------------------------
(* The use cases called one at a time on a PO that starts out PENDING *)

InitPending ==
    /\ Init
    /\ \A n \in DOMAIN repo : repo[n].status = PENDING

SpecFromPending == InitPending /\ [][NextHandlers]_vars

(* no call is in progress *)
Quiescent == \A p \in Procs : run[p].pc = "idle"

(* C36: no lock outlives completion: once the calls have returned, a PO    *)
(* whose persisted status is COMPLETED has no unexpired lock holder        *)
C36_NoLockOutlivesCompletion ==
    Quiescent =>
        \A n \in DOMAIN repo :
            repo[n].status = COMPLETED => ~is_locked(repo[n], now).ret

---------------------------------------------------------------------------
(* Calls without end: one caller keeps calling execute and Approve on the  *)
(* PO, with every command, for as long as it likes; data is valid and the  *)
(* collaborators do not fail                                               *)

(* execute(command) is entered by user, with any flags *)
CallExecute(p, user) ==
    /\ Invoke(p, {user})
    /\ UNCHANGED <<now, repo, sap, calls, agg, last>>

(* ApprovePOUseCase.execute(command) is entered by user, with any flags *)
CallApprove(p, user) ==
    /\ run[p].pc = "idle"
    /\ \E po_number \in PONumbers, post_invoice, notify \in BOOLEAN :
            run' = [run EXCEPT ![p] =
                [IdleRun EXCEPT
                    !.pc = "a_fetch",
                    !.cmd = [po_number |-> po_number, approved_by |-> user,
                             notes |-> <<>>, post_invoice |-> post_invoice,
                             notify |-> notify]]]
    /\ UNCHANGED <<now, repo, sap, calls, agg, last>>

NextRecover ==
    \/ \E user \in Users : CallExecute(1, user)
    \/ \E user \in Users : CallApprove(1, user)
    \/ Steps(1, EnvGood)
    \/ ApproveSteps(1, EnvGood)
    \/ Tick

(* every call in progress goes on to its return, every user calls execute  *)
(* and Approve again and again, and time passes                            *)
SpecRecover ==
    /\ InitResume
    /\ [][NextRecover]_vars
    /\ WF_vars(Steps(1, EnvGood))
    /\ WF_vars(ApproveSteps(1, EnvGood))
    /\ SF_vars(Tick)
    /\ \A user \in Users : SF_vars(CallExecute(1, user))
    /\ \A user \in Users : SF_vars(CallApprove(1, user))

(* C37: APPROVED is never a dead end: when the persisted status of the PO  *)
(* is APPROVED, execute and Approve calls with non-failing collaborators   *)
(* bring it to COMPLETED                                                   *)
C37_ApprovedReachesCompleted ==
    \A n \in PONumbers :
        (repo[n].status = APPROVED) ~> (repo[n].status = COMPLETED)

(* between calls, a persisted APPROVED stays APPROVED whatever is called *)
ApprovedIsFinalBetweenCalls ==
    [][\A n \in PONumbers :
        /\ repo[n].status = APPROVED
        /\ run[1].pc \notin {"a_invoice", "a_complete", "invoice", "complete"}
        => repo'[n] = repo[n]]_vars

---------------------------------------------------------------------------
(* The lock on the linked document *)

(* the positions in the trace of frame r at which it made the call with    *)
(* the outcome                                                             *)
CallsAt(r, call, out) ==
    {i \in DOMAIN r.trace : r.trace[i] = <<call, out>>}

(* every unlock_document of frame r follows a lock_document that locked *)
UnlocksOnlyLocked(r) ==
    \A j \in DOMAIN r.trace :
        r.trace[j][1] = "unlock_document" =>
            \E i \in CallsAt(r, "lock_document", "true") : i < j

(* every document frame r locked was unlocked later *)
LockedIsUnlocked(r) ==
    \A i \in CallsAt(r, "lock_document", "true") :
        \E j \in CallsAt(r, "unlock_document", "true") : i < j

(* C38: document locks are paired within a run: execute unlocks the linked *)
(* document only if it locked it earlier, and a document it locked is      *)
(* unlocked before it returns, on every exit                               *)
C38_DocumentLocksPaired ==
    \A p \in Procs :
        run[p].pc = "done" /\ IsExecute(run[p]) =>
            /\ UnlocksOnlyLocked(run[p])
            /\ LockedIsUnlocked(run[p])

---------------------------------------------------------------------------
(* The invoice milestone of the result *)

(* C39: the invoice_posted field of the result of execute is true if and   *)
(* only if the gateway's post_invoice call succeeded during that run       *)
C39_InvoiceFlagTruthful ==
    \A p \in Procs :
        run[p].pc = "done" /\ IsExecute(run[p]) =>
            (run[p].result.invoice_posted
                <=> CallsAt(run[p], "post_invoice", "ok") # {})

---------------------------------------------------------------------------
(* One actor calling execute again after a failure: ana calls execute on   *)
(* the PO up to MaxRuns times, one call at a time; the collaborators do    *)
(* not fail, the ERP snapshot may differ from the PO                       *)

EnvMismatch == [fail |-> FALSE, mismatch |-> TRUE]

Rerun(p) ==
    /\ calls < MaxRuns
    /\ Invoke(p, {"ana"})
    /\ calls' = calls + 1
    /\ UNCHANGED <<now, repo, sap, agg, last>>

NextRerun ==
    \/ Rerun(1)
    \/ Steps(1, EnvMismatch)
    \/ Tick

SpecRerun == Init /\ [][NextRerun]_vars

(* C40: reconciliation_status "success" implies an empty discrepancy list, *)
(* on the persisted PO and on the copy of a run, also when a successful    *)
(* reconciliation follows a failed one                                     *)
C40_SuccessHasNoDiscrepancies ==
    /\ \A n \in DOMAIN repo :
        repo[n].reconciliation_status = "success" => repo[n].discrepancies = <<>>
    /\ \A p \in Procs :
        run[p].po.reconciliation_status = "success" => run[p].po.discrepancies = <<>>

===========================================================================
